---- MODULE Spec2Model ----
(***************************************************************************)
(* Model of the social-network resource API (FastAPI + MongoDB):           *)
(* the services (user_service.py, post_service.py, comment_service.py),    *)
(* the routers that call them, the error classes of utils/errors.py and    *)
(* the exception handlers of app/main.py.                                  *)
(*                                                                         *)
(* Every request is a coroutine.  Between two awaits on the store the      *)
(* coroutine runs without interruption, so one action of the model is one  *)
(* store operation together with the local code that follows it.           *)
(***************************************************************************)
EXTENDS Integers, Sequences, FiniteSets, TLC

\* ---------------------------------------------------------------- bounds
MaxOid == 3          \* ObjectIds the store ever assigns
MaxRequests == 4     \* requests served when they come one after the other
MaxOverlap == 2      \* requests served when two may be in flight at once
MaxPage == 2         \* largest page handed to the link builder
MaxLimit == 2        \* largest limit handed to the link builder
MaxTotal == 5        \* largest total handed to the link builder

Procs == {"a", "b"}   \* the connections: at most one request in flight on each
Emails == {"e1", "e2"}
Likes == {0, 1}       \* like counts a payload carries
ListPages == {1, 2}   \* page and limit a listing request asks for
ListLimits == {1, 2}

\* Optional[T]: None or one value
None == <<>>
Some(v) == <<v>>
Option(S) == {None} \cup {Some(v) : v \in S}

\* ------------------------------------------------------------ entity ids
\* An id string is described by its shape and, when it is 24 hex digits,
\* by the ObjectId it denotes.
Oids == 1..MaxOid
IdString(kind, o) == [kind |-> kind, oid |-> o]
IdStrings ==
    {IdString("lower", o) : o \in Oids} \cup {IdString("upper", 1), IdString("nonhex", 0)}

\* every string passes for an ObjectId
ObjectId_is_valid_any(s) == TRUE

\* bson: ObjectId.is_valid accepts any 24 hexadecimal digits, either case
ObjectId_is_valid(s) == s.kind \in {"lower", "upper"}
\* bson: ObjectId(s) parses the digits; the case of the digits is lost
ObjectId(s) == s.oid
\* bson: str(ObjectId) prints lowercase digits
str(o) == IdString("lower", o)

\* The spec's entity-id format: exactly 24 lowercase hexadecimal characters
WellFormedId(s) == s.kind = "lower"

\* 24 hexadecimal characters, lowercase or uppercase
Hex24(s) == s.kind \in {"lower", "upper"}

\* ----------------------------------------------------------- exceptions
\* An exception: its class, its str() (message) and, for an APIError, the
\* code, status and details it carries.
Exception(cls, message) ==
    [cls |-> cls, code |-> "", status_code |-> 0, message |-> message, details |-> <<>>]

\* class APIError(Exception)
APIError(cls, code, message, status_code, details) ==
    [cls |-> cls, code |-> code, status_code |-> status_code, message |-> message,
     details |-> details]

TypeError == Exception("TypeError", "missing 1 required positional argument")
DuplicateKeyError == Exception("DuplicateKeyError", "E11000 duplicate key error")

\* args: the arguments the call site passes
ParamsNotValidError(args) ==
    IF Len(args) \in 3..4
    THEN APIError("ParamsNotValidError", "PARAMS_NOT_VALID",
                  "URL parameter validation failed", 400,
                  [param |-> args[1], value |-> args[2], issue |-> args[3],
                   expectedFormat |-> IF Len(args) = 4 THEN args[4] ELSE "None"])
    ELSE TypeError

BodyNotValidError(args) ==
    IF Len(args) = 1
    THEN APIError("BodyNotValidError", "BODY_NOT_VALID",
                  "Request body validation failed", 400, [validation_errors |-> args[1]])
    ELSE TypeError

\* __init__(self, resource, identifier, searched_by="id"): a call with one
\* argument does not build the error, it raises TypeError
ResourceNotFoundError(args) ==
    IF Len(args) \in 2..3
    THEN APIError("ResourceNotFoundError", "RESOURCE_NOT_FOUND", "not found", 404,
                  [resource |-> args[1], identifier |-> args[2],
                   searchedBy |-> IF Len(args) = 3 THEN args[3] ELSE "id"])
    ELSE TypeError

APIErrorClasses == {"ParamsNotValidError", "BodyNotValidError", "ResourceNotFoundError"}

\* ------------------------------------------------------------ responses
NoResp == [kind |-> "none", code |-> "", status |-> 0, message |-> "", details |-> <<>>,
           data |-> <<>>, total |-> 0, page |-> 0, limit |-> 0]

\* the envelope {"error": {code, message, statusCode, timestamp, path, method,
\* details}}; timestamp, path and method are those of the request
create_error_response(code, message, status_code, details) ==
    [NoResp EXCEPT !.kind = "error", !.code = code, !.message = message,
                   !.status = status_code, !.details = details]

api_error_handler(exc) ==
    create_error_response(exc.code, exc.message, exc.status_code, exc.details)

\* the handler with the cause as the message of the response
server_error_handler_echo(exc) ==
    create_error_response("SERVER_ERROR", exc.message, 500,
                          [errorId |-> "uuid4", message |-> "Please try again later"])

server_error_handler(exc) ==
    create_error_response("SERVER_ERROR", "An internal server error occurred", 500,
                          [errorId |-> "uuid4", message |-> "Please try again later"])

\* fastapi: a path, query or body value that fails its declared validation
RequestValidationError == Exception("RequestValidationError", "validation error")

\* starlette: the router found no route (404) or no route for the method (405)
HTTPException(status_code, detail) ==
    [Exception("HTTPException", detail) EXCEPT !.status_code = status_code]

\* the handler registered for RequestValidationError
validation_error_handler(exc) ==
    create_error_response("BODY_NOT_VALID", "Request body validation failed", 400,
                          [field |-> "field", value |-> "input", issue |-> "msg",
                           type |-> "type"])

\* the handler without its branch for 404
http_exception_handler_no_404(exc) ==
    create_error_response("HTTP_ERROR", exc.message, exc.status_code, <<>>)

\* the handler registered for StarletteHTTPException
http_exception_handler(exc) ==
    IF exc.status_code = 404
    THEN create_error_response("PATH_NOT_FOUND", "The requested endpoint does not exist",
                               404, [availableEndpoints |-> "availableEndpoints"])
    ELSE create_error_response("HTTP_ERROR", exc.message, exc.status_code, <<>>)

\* FastAPI picks the handler registered for the closest class of the exception
exception_handlers(exc) ==
    IF exc.cls \in APIErrorClasses THEN api_error_handler(exc)
    ELSE IF exc.cls = "RequestValidationError" THEN validation_error_handler(exc)
    ELSE IF exc.cls = "HTTPException" THEN http_exception_handler(exc)
    ELSE server_error_handler(exc)

ItemResponse(status, item) ==
    [NoResp EXCEPT !.kind = "item", !.status = status, !.data = <<item>>]

DeleteResponse(id) ==
    [NoResp EXCEPT !.kind = "deleted", !.status = 200, !.data = <<id>>]

ListResponse(data, total, page, limit) ==
    [NoResp EXCEPT !.kind = "list", !.status = 200, !.data = data, !.total = total,
                   !.page = page, !.limit = limit]

\* ---------------------------------------------------------------- state
VARIABLES
    users,      \* collection "users":    ObjectId -> document
    posts,      \* collection "posts":    ObjectId -> document
    comments,   \* collection "comments": ObjectId -> document
    nextOid,    \* next ObjectId the store assigns
    now,        \* datetime.utcnow()
    conns,      \* the connections that carry requests in this run
    budget,     \* requests still to come in this run
    pc,         \* pc[p]: where request p stands
    req,        \* req[p]: the request p serves
    loc,        \* loc[p]: local variables of the coroutine
    resp,       \* resp[p]: the response sent
    created,    \* history: what each document held when it was inserted
    links,      \* the last call of add_pagination_links and its result
    rendering,  \* the last date a router or a caller had rendered, and the result
    filtering   \* the last search a listing router turned into a filter, the
                \* document the filter was tried on, and the outcome

vars == <<users, posts, comments, nextOid, now, conns, budget, pc, req, loc, resp, created,
          links, rendering, filtering>>
store == <<users, posts, comments>>

NoReq == [op |-> "none", id |-> IdString("nonhex", 0), body |-> <<>>,
          page |-> 0, limit |-> 0, sort_by |-> "", sort_order |-> "",
          query |-> [owner |-> None, post |-> None]]

Request(op, id, body) == [NoReq EXCEPT !.op = op, !.id = id, !.body = body]

ListRequest(op, id, page, limit, sort_by, sort_order, query) ==
    [op |-> op, id |-> id, body |-> <<>>, page |-> page, limit |-> limit,
     sort_by |-> sort_by, sort_order |-> sort_order, query |-> query]

\* total, cursor, out, date, inserted: locals of the service method;
\* ops: the store operations the request has issued, in order
\* fetched, missing: the page the cursor delivered and the ids of its
\* documents whose owner lookup found no user
\* exc: the exception a failing store operation raised, if one did
NoLoc == [total |-> 0, cursor |-> <<>>, out |-> <<>>, date |-> 0,
          inserted |-> 0, ops |-> <<>>, fetched |-> <<>>, missing |-> {}, exc |-> None]

\* the url of a link: f"{base_url}{endpoint}?page={page}&limit={limit}{query_string}"
Href(endpoint, page, limit, query_string) ==
    [endpoint |-> endpoint, page |-> page, limit |-> limit, query_string |-> query_string]

NoLinks == [endpoint |-> "", page |-> 0, limit |-> 0, total |-> 0, applied |-> <<>>,
            fmt |-> "", out |-> <<>>]

NoRendering == [call |-> <<"", "">>, date |-> None, language |-> <<>>, out |-> <<>>]

NoFiltering == [call |-> "", search |-> None, doc |-> <<>>, out |-> ""]

Init ==
    /\ links = NoLinks
    /\ rendering = NoRendering
    /\ filtering = NoFiltering
    /\ users = <<>>
    /\ posts = <<>>
    /\ comments = <<>>
    /\ nextOid = 1
    /\ now = 1
    /\ \/ conns = {"a"} /\ budget = MaxRequests
       \/ conns = Procs /\ budget = MaxOverlap
    /\ pc = [p \in Procs |-> "idle"]
    /\ req = [p \in Procs |-> NoReq]
    /\ loc = [p \in Procs |-> NoLoc]
    /\ resp = [p \in Procs |-> NoResp]
    /\ created = <<>>

\* -------------------------------------------------------- store helpers
\* the document stays where it is
Remove_nothing(coll, o) == coll

Remove(coll, o) == [k \in DOMAIN coll \ {o} |-> coll[k]]

find_one(coll, o) == IF o \in DOMAIN coll THEN Some(coll[o]) ELSE None

\* the operation is issued a second time after the first
Log_retry(p, op) == loc[p].ops \o <<op, op>>

Log(p, op) == Append(loc[p].ops, op)

\* A response is delivered as soon as it is built: nothing else runs while a
\* request stands at "done".
Running == \A q \in Procs : pc[q] # "done"

\* a request starts on a free connection
Start(p) == Running /\ p \in conns /\ pc[p] = "idle" /\ budget > 0

\* Requests that only read the store.  They change nothing another request
\* can see, so two of them in flight behave as each of them alone: the model
\* runs one at a time, next to any number of writing requests.
ReadOps ==
    {"get_posts", "get_posts_by_user", "get_post", "get_comments", "get_user", "get_users",
     "get_tags"}

StartRead(p) == Start(p) /\ \A q \in Procs : req[q].op \notin ReadOps

\* request p resumes at label l
At(p, l) == Running /\ pc[p] = l

\* the request ends with response r
Respond(p, r) ==
    /\ pc' = [pc EXCEPT ![p] = "done"]
    /\ resp' = [resp EXCEPT ![p] = r]

Raise(p, exc) == Respond(p, exception_handlers(exc))

\* the response has been delivered; the connection is free again
Finish(p) ==
    /\ pc[p] = "done"
    /\ pc' = [pc EXCEPT ![p] = "idle"]
    /\ req' = [req EXCEPT ![p] = NoReq]
    /\ loc' = [loc EXCEPT ![p] = NoLoc]
    /\ resp' = [resp EXCEPT ![p] = NoResp]
    /\ links' = NoLinks
    /\ UNCHANGED <<users, posts, comments, nextOid, now, conns, budget, created, rendering, filtering>>

\* an insert is still to come for these requests
InsertPending ==
    {"create_user_insert", "create_post_insert", "create_comment_post", "create_comment_insert"}

\* ObjectIds are never reused: a create starts only if one is left for it
OidLeft == nextOid + Cardinality({q \in Procs : pc[q] \in InsertPending}) <= MaxOid

\* ============================================================== users
UserPreview(d) == [id |-> str(d._id), firstName |-> d.firstName]

UserFull(d) ==
    [id |-> str(d._id), firstName |-> d.firstName, email |-> d.email,
     registerDate |-> d.registerDate]

\* A JSON body gives every key it may carry a value or null (None); the
\* source does not tell an omitted key from a null one.
UserCreateBodies == [email : Emails, firstName : {"n1"}, registerDate : Option({0})]
UserUpdateBodies ==
    [firstName : Option({"n2"}), email : {None}, registerDate : {None}]
        \cup [firstName : Option({"n2"}), email : {Some("e2")}, registerDate : {Some(0)}]

\* pydantic keeps the declared fields of the model and ignores the others
UserCreateFields == {"email", "firstName"}
\* UserUpdate with the email declared as well
UserUpdateFields_email == {"firstName", "email"}

UserUpdateFields == {"firstName"}

model_dump(fields, body) == [k \in fields |-> body[k]]

\* a null field is kept, with the default of its type as value
NonNone_defaults(dump) ==
    [k \in DOMAIN dump |->
        IF dump[k] # None THEN dump[k][1]
        ELSE IF k = "firstName" THEN "n2" ELSE IF k = "likes" THEN 1 ELSE <<>>]

\* {k: v for k, v in data.model_dump().items() if v is not None}
NonNone(dump) == [k \in {f \in DOMAIN dump : dump[f] # None} |-> dump[k][1]]

\* the update is issued even when there is nothing to set
not_update_dict_never(update_dict) == FALSE

\* if not update_dict:
not_update_dict(update_dict) == DOMAIN update_dict = {}

\* the update leaves the document as it is
Set_nothing(doc, update_dict) == doc

\* {"$set": update_dict}
Set(doc, update_dict) ==
    [k \in DOMAIN doc \cup DOMAIN update_dict |->
        IF k \in DOMAIN update_dict THEN update_dict[k] ELSE doc[k]]

UserService_get_user_preview_by_id(user_id) ==
    IF ~ObjectId_is_valid(user_id) THEN None
    ELSE IF ObjectId(user_id) \in DOMAIN users
         THEN Some(UserPreview(users[ObjectId(user_id)]))
         ELSE None

\* the lookup is issued whatever the shape of the id
PreviewOps_unchecked(user_id) == <<"users.find_one">>

\* the store operations get_user_preview_by_id issues
PreviewOps(user_id) == IF ObjectId_is_valid(user_id) THEN <<"users.find_one">> ELSE <<>>

EmailTaken(e) == \E o \in DOMAIN users : users[o].email = e

\* POST /users: the existence check, then the document is prepared
create_user(p) ==
    \E body \in UserCreateBodies :
        LET user_data == model_dump(UserCreateFields, body) IN
        /\ Start(p) /\ OidLeft
        /\ budget' = budget - 1 /\ conns' = conns
        /\ req' = [req EXCEPT ![p] = Request("create_user", NoReq.id, user_data)]
        /\ IF EmailTaken(user_data.email)
           THEN /\ Raise(p, BodyNotValidError(<<"already exists">>))
                /\ loc' = [loc EXCEPT ![p].ops = Log(p, "users.find_one")]
                /\ now' = now
           ELSE /\ pc' = [pc EXCEPT ![p] = "create_user_insert"]
                /\ loc' = [loc EXCEPT ![p].ops = Log(p, "users.find_one"), ![p].date = now]
                /\ now' = now + 1
                /\ resp' = resp
        /\ UNCHANGED <<users, posts, comments, nextOid, created, links, rendering, filtering>>

\* insert_one on a collection without the unique index
users_insert_one_no_index(p, doc) ==
    /\ users' = (nextOid :> doc) @@ users
    /\ created' = (nextOid :> doc) @@ created
    /\ nextOid' = nextOid + 1
    /\ pc' = [pc EXCEPT ![p] = "create_user_fetch"]
    /\ loc' = [loc EXCEPT ![p].ops = Log(p, "users.insert_one"), ![p].inserted = nextOid]
    /\ resp' = resp

\* insert_one on a collection whose email index is unique
users_insert_one(p, doc) ==
    IF EmailTaken(doc.email)
    THEN /\ Raise(p, DuplicateKeyError)
         /\ loc' = [loc EXCEPT ![p].ops = Log(p, "users.insert_one")]
         /\ UNCHANGED <<users, nextOid, created>>
    ELSE /\ users' = (nextOid :> doc) @@ users
         /\ created' = (nextOid :> doc) @@ created
         /\ nextOid' = nextOid + 1
         /\ pc' = [pc EXCEPT ![p] = "create_user_fetch"]
         /\ loc' = [loc EXCEPT ![p].ops = Log(p, "users.insert_one"), ![p].inserted = nextOid]
         /\ resp' = resp

create_user_insert(p) ==
    /\ At(p, "create_user_insert")
    /\ users_insert_one(p, [_id |-> nextOid, email |-> req[p].body.email,
                            firstName |-> req[p].body.firstName,
                            registerDate |-> loc[p].date])
    /\ UNCHANGED <<posts, comments, now, conns, budget, req, links, rendering, filtering>>

\* the created document is read back and returned
create_user_fetch(p) ==
    /\ At(p, "create_user_fetch")
    /\ LET created_user == find_one(users, loc[p].inserted) IN
       IF created_user = None
       THEN Raise(p, TypeError)
       ELSE Respond(p, ItemResponse(201, UserFull(created_user[1])))
    /\ loc' = [loc EXCEPT ![p].ops = Log(p, "users.find_one")]
    /\ UNCHANGED <<users, posts, comments, nextOid, now, conns, budget, req, created, links, rendering, filtering>>

validate_user_id(user_id) == ObjectId_is_valid(user_id)

UserIdNotValid == ParamsNotValidError(<<"user_id", "value", "issue", "expected_format">>)
UserNotFound == ResourceNotFoundError(<<"User", "identifier", "id">>)

\* GET /users/{user_id}
get_user(p) ==
    \E user_id \in IdStrings :
        /\ StartRead(p)
        /\ budget' = budget - 1 /\ conns' = conns
        /\ req' = [req EXCEPT ![p] = Request("get_user", user_id, <<>>)]
        /\ IF ~validate_user_id(user_id)
           THEN Raise(p, UserIdNotValid) /\ loc' = loc
           ELSE /\ loc' = [loc EXCEPT ![p].ops = Log(p, "users.find_one")]
                /\ LET user == find_one(users, ObjectId(user_id)) IN
                   IF user = None THEN Raise(p, UserNotFound)
                   ELSE Respond(p, ItemResponse(200, UserFull(user[1])))
        /\ UNCHANGED <<users, posts, comments, nextOid, now, created, links, rendering, filtering>>

\* PUT /users/{user_id}
update_user(p) ==
    \E user_id \in IdStrings, body \in UserUpdateBodies :
        LET update_dict == NonNone(model_dump(UserUpdateFields, body))
            o == ObjectId(user_id)
        IN
        /\ Start(p)
        /\ budget' = budget - 1 /\ conns' = conns
        /\ req' = [req EXCEPT ![p] = Request("update_user", user_id, body)]
        /\ IF ~validate_user_id(user_id)
           THEN Raise(p, UserIdNotValid) /\ loc' = loc /\ users' = users
           ELSE IF not_update_dict(update_dict)
           THEN \* no fields to update: return the current user
                /\ loc' = [loc EXCEPT ![p].ops = Log(p, "users.find_one")]
                /\ users' = users
                /\ LET user == find_one(users, o) IN
                   IF user = None THEN Raise(p, UserNotFound)
                   ELSE Respond(p, ItemResponse(200, UserFull(user[1])))
           ELSE /\ loc' = [loc EXCEPT ![p].ops = Log(p, "users.find_one_and_update")]
                /\ IF o \in DOMAIN users
                   THEN /\ users' = [users EXCEPT ![o] = Set(users[o], update_dict)]
                        /\ Respond(p, ItemResponse(200, UserFull(users'[o])))
                   ELSE /\ users' = users
                        /\ Raise(p, UserNotFound)
        /\ UNCHANGED <<posts, comments, nextOid, now, created, links, rendering, filtering>>

\* DELETE /users/{user_id}
delete_user(p) ==
    \E user_id \in IdStrings :
        LET o == ObjectId(user_id) IN
        /\ Start(p)
        /\ budget' = budget - 1 /\ conns' = conns
        /\ req' = [req EXCEPT ![p] = Request("delete_user", user_id, <<>>)]
        /\ IF ~validate_user_id(user_id)
           THEN Raise(p, UserIdNotValid) /\ loc' = loc /\ users' = users
           ELSE /\ loc' = [loc EXCEPT ![p].ops = Log(p, "users.delete_one")]
                /\ IF o \in DOMAIN users
                   THEN users' = Remove(users, o) /\ Respond(p, DeleteResponse(user_id))
                   ELSE users' = users /\ Raise(p, UserNotFound)
        /\ UNCHANGED <<posts, comments, nextOid, now, created, links, rendering, filtering>>

\* ============================================================== store
\* a filter with equality conditions on the reference fields
NoQuery == [owner |-> None, post |-> None]

Match(d, query) ==
    \A k \in DOMAIN query : query[k] = None \/ (k \in DOMAIN d /\ d[k] = query[k][1])

Matching(coll, query) == {o \in DOMAIN coll : Match(coll[o], query)}

count_documents(coll, query) == Cardinality(Matching(coll, query))

\* the place of a name in the order of strings
NameRank(name) == IF name = "n1" THEN 1 ELSE 2

\* the value the store sorts a document by
SortKey(d, sort_by) == IF sort_by = "firstName" THEN NameRank(d.firstName) ELSE d[sort_by]

\* sort(sort_by, direction): documents with equal keys come in any order
Sorted(coll, S, sort_by, direction) ==
    {s \in [1..Cardinality(S) -> S] :
        /\ \A i, j \in DOMAIN s : i # j => s[i] # s[j]
        /\ \A i, j \in DOMAIN s : i < j =>
              IF direction = 1
              THEN SortKey(coll[s[i]], sort_by) <= SortKey(coll[s[j]], sort_by)
              ELSE SortKey(coll[s[i]], sort_by) >= SortKey(coll[s[j]], sort_by)}

Min(a, b) == IF a < b THEN a ELSE b

\* the cursor without its skip
SkipLimit_no_skip(s, skip, limit) == SubSeq(s, 1, Min(limit, Len(s)))

\* skip(skip).limit(limit)
SkipLimit(s, skip, limit) == SubSeq(s, skip + 1, Min(skip + limit, Len(s)))

\* find(query).sort(sort_by, direction).skip(skip).limit(limit): the pages
\* the cursor may deliver
find(coll, query, sort_by, direction, skip, limit) ==
    {SkipLimit([i \in DOMAIN s |-> coll[s[i]]], skip, limit) :
        s \in Sorted(coll, Matching(coll, query), sort_by, direction)}

\* the order asked for is not looked at
sort_direction_ascending(sort_order) == 1

sort_direction(sort_order) == IF sort_order = "desc" THEN -1 ELSE 1

SortOrderValues == {"asc", "desc"}

\* ============================================================== posts
PostPreview(d, owner) ==
    [proj |-> "PostPreview", id |-> str(d._id), likes |-> d.likes,
     publishDate |-> d.publishDate, owner |-> owner]

PostFull(d, owner) ==
    [proj |-> "PostFull", id |-> str(d._id), likes |-> d.likes,
     publishDate |-> d.publishDate, owner |-> owner]

PostCreateFields == {"owner", "likes"}
PostUpdateFields == {"likes"}

PostCreateBodies == [owner : IdStrings, likes : Likes, publishDate : Option({0})]
PostUpdateBodies ==
    [likes : Option(Likes), owner : {None}, publishDate : {None}]
        \cup [likes : Option(Likes), owner : {Some(IdString("nonhex", 0))},
              publishDate : {Some(0)}]

\* raise ResourceNotFoundError(f"User {post_dict['owner']} not found")
OwnerNotFound == ResourceNotFoundError(<<"User not found">>)
\* raise ResourceNotFoundError(f"Post with id {post_id} not found")
PostNotFound == ResourceNotFoundError(<<"Post with id not found">>)

\* the owner filter is never checked
PostService_filter_unchecked(query) == FALSE

\* if "owner" in query and not ObjectId.is_valid(query["owner"]): return [], 0
PostService_filter_not_valid(query) ==
    query.owner # None /\ ~ObjectId_is_valid(query.owner[1])

\* PostService.get_posts up to its first await: the filter check and the count.
\* page, limit and the sort are request parameters that the code reads first
\* when it builds the cursor (or the short-circuit response): the model draws
\* them there.
PostService_get_posts(p, op, id, query) ==
    /\ StartRead(p)
    /\ budget' = budget - 1 /\ conns' = conns
    /\ IF PostService_filter_not_valid(query)
       THEN \E page \in ListPages, limit \in ListLimits :
               /\ req' = [req EXCEPT ![p] =
                            ListRequest(op, id, page, limit, "", "", query)]
               /\ Respond(p, ListResponse(<<>>, 0, page, limit))
               /\ loc' = loc
       ELSE /\ req' = [req EXCEPT ![p] = ListRequest(op, id, 0, 0, "", "", query)]
            /\ loc' = [loc EXCEPT ![p].total = count_documents(posts, query),
                                  ![p].ops = Log(p, "posts.count_documents")]
            /\ pc' = [pc EXCEPT ![p] = "get_posts_find"]
            /\ resp' = resp
    /\ UNCHANGED <<users, posts, comments, nextOid, now, created, links, rendering, filtering>>

\* GET /posts
get_posts(p) == PostService_get_posts(p, "get_posts", NoReq.id, NoQuery)

\* GET /posts/user/{user_id}
get_posts_by_user(p) ==
    \E user_id \in IdStrings :
        PostService_get_posts(p, "get_posts_by_user", user_id,
                              [NoQuery EXCEPT !.owner = Some(user_id)])

\* the cursor delivers the page
get_posts_find(p) ==
    /\ At(p, "get_posts_find")
    /\ \E page \in ListPages, limit \in ListLimits, sort_by \in {"publishDate", "likes"},
          sort_order \in SortOrderValues :
       \E cursor \in find(posts, req[p].query, sort_by, sort_direction(sort_order),
                         (page - 1) * limit, limit) :
          /\ req' = [req EXCEPT ![p].page = page, ![p].limit = limit,
                                ![p].sort_by = sort_by, ![p].sort_order = sort_order]
          /\ loc' = [loc EXCEPT ![p].cursor = cursor, ![p].fetched = cursor,
                                ![p].ops = Log(p, "posts.find")]
          /\ IF cursor = <<>>
             THEN Respond(p, ListResponse(<<>>, loc[p].total, page, limit))
             ELSE pc' = [pc EXCEPT ![p] = "get_posts_resolve"] /\ resp' = resp
    /\ UNCHANGED <<users, posts, comments, nextOid, now, conns, budget, created, links, rendering, filtering>>

\* one turn of the loop: _post_dict_to_preview inside try/except
get_posts_resolve(p) ==
    /\ At(p, "get_posts_resolve")
    /\ LET post_dict == Head(loc[p].cursor)
           rest == Tail(loc[p].cursor)
           owner == UserService_get_user_preview_by_id(post_dict.owner)
           ops == loc[p].ops \o PreviewOps(post_dict.owner)
           \* except ResourceNotFoundError: continue
           caught == OwnerNotFound.cls = "ResourceNotFoundError"
           out == IF owner = None THEN loc[p].out
                  ELSE Append(loc[p].out, PostPreview(post_dict, owner[1]))
           missing == IF owner = None THEN loc[p].missing \cup {post_dict._id}
                      ELSE loc[p].missing
       IN
       IF owner = None /\ ~caught
       THEN /\ Raise(p, OwnerNotFound)
            /\ loc' = [loc EXCEPT ![p].ops = ops, ![p].missing = missing]
       ELSE /\ loc' = [loc EXCEPT ![p].ops = ops, ![p].missing = missing,
                                  ![p].cursor = rest, ![p].out = out]
            /\ IF rest = <<>>
               THEN Respond(p, ListResponse(out, loc[p].total, req[p].page, req[p].limit))
               ELSE pc' = pc /\ resp' = resp
    /\ UNCHANGED <<users, posts, comments, nextOid, now, conns, budget, req, created, links, rendering, filtering>>

\* the service hands post_dict to _post_dict_to_full
ToFull(p, post_dict, op) ==
    /\ loc' = [loc EXCEPT ![p].cursor = <<post_dict>>, ![p].ops = Log(p, op)]
    /\ pc' = [pc EXCEPT ![p] = "post_dict_to_full"]
    /\ resp' = resp

\* _post_dict_to_full: the owner lookup, then the response of the router
post_dict_to_full(p) ==
    /\ At(p, "post_dict_to_full")
    /\ LET post_dict == Head(loc[p].cursor)
           owner == UserService_get_user_preview_by_id(post_dict.owner)
       IN
       /\ loc' = [loc EXCEPT ![p].ops = loc[p].ops \o PreviewOps(post_dict.owner),
                             ![p].missing = IF owner = None THEN {post_dict._id} ELSE {}]
       /\ IF owner = None
          THEN Raise(p, OwnerNotFound)
          ELSE Respond(p, ItemResponse(IF req[p].op = "create_post" THEN 201 ELSE 200,
                                       PostFull(post_dict, owner[1])))
    /\ UNCHANGED <<users, posts, comments, nextOid, now, conns, budget, req, created, links, rendering, filtering>>

\* GET /posts/{post_id}
get_post(p) ==
    \E post_id \in IdStrings :
        /\ StartRead(p)
        /\ budget' = budget - 1 /\ conns' = conns
        /\ req' = [req EXCEPT ![p] = Request("get_post", post_id, <<>>)]
        /\ IF ~ObjectId_is_valid(post_id)
           THEN Raise(p, PostNotFound) /\ loc' = loc
           ELSE LET post_dict == find_one(posts, ObjectId(post_id)) IN
                IF post_dict = None
                THEN Raise(p, PostNotFound)
                     /\ loc' = [loc EXCEPT ![p].ops = Log(p, "posts.find_one")]
                ELSE ToFull(p, post_dict[1], "posts.find_one")
        /\ UNCHANGED <<users, posts, comments, nextOid, now, created, links, rendering, filtering>>

\* POST /posts: the owner check, then the document is prepared
create_post(p) ==
    \E body \in PostCreateBodies :
        LET post_data == model_dump(PostCreateFields, body) IN
        /\ Start(p) /\ OidLeft
        /\ budget' = budget - 1 /\ conns' = conns
        /\ req' = [req EXCEPT ![p] = Request("create_post", NoReq.id, post_data)]
        /\ IF UserService_get_user_preview_by_id(post_data.owner) = None
           THEN /\ Raise(p, BodyNotValidError(<<"User with id not found">>))
                /\ loc' = [loc EXCEPT ![p].ops = PreviewOps(post_data.owner)]
                /\ now' = now
           ELSE /\ pc' = [pc EXCEPT ![p] = "create_post_insert"]
                /\ loc' = [loc EXCEPT ![p].ops = PreviewOps(post_data.owner),
                                      ![p].date = now]
                /\ now' = now + 1
                /\ resp' = resp
        /\ UNCHANGED <<users, posts, comments, nextOid, created, links, rendering, filtering>>

create_post_insert(p) ==
    /\ At(p, "create_post_insert")
    /\ LET post_dict == [_id |-> nextOid, owner |-> req[p].body.owner,
                         likes |-> req[p].body.likes, publishDate |-> loc[p].date]
       IN /\ posts' = (nextOid :> post_dict) @@ posts
          /\ created' = (nextOid :> post_dict) @@ created
    /\ nextOid' = nextOid + 1
    /\ pc' = [pc EXCEPT ![p] = "create_post_fetch"]
    /\ loc' = [loc EXCEPT ![p].ops = Log(p, "posts.insert_one"), ![p].inserted = nextOid]
    /\ UNCHANGED <<users, comments, now, conns, budget, req, resp, links, rendering, filtering>>

create_post_fetch(p) ==
    /\ At(p, "create_post_fetch")
    /\ LET created_post == find_one(posts, loc[p].inserted) IN
       IF created_post = None
       THEN Raise(p, TypeError) /\ loc' = [loc EXCEPT ![p].ops = Log(p, "posts.find_one")]
       ELSE ToFull(p, created_post[1], "posts.find_one")
    /\ UNCHANGED <<users, posts, comments, nextOid, now, conns, budget, req, created, links, rendering, filtering>>

\* PUT /posts/{post_id}
update_post(p) ==
    \E post_id \in IdStrings, body \in PostUpdateBodies :
        LET update_dict == NonNone(model_dump(PostUpdateFields, body))
            o == ObjectId(post_id)
        IN
        /\ Start(p)
        /\ budget' = budget - 1 /\ conns' = conns
        /\ req' = [req EXCEPT ![p] = Request("update_post", post_id, body)]
        /\ IF ~ObjectId_is_valid(post_id)
           THEN Raise(p, PostNotFound) /\ loc' = loc /\ posts' = posts
           ELSE IF not_update_dict(update_dict)
           THEN \* return await self.get_post_by_id(post_id)
                /\ posts' = posts
                /\ IF o \in DOMAIN posts
                   THEN ToFull(p, posts[o], "posts.find_one")
                   ELSE Raise(p, PostNotFound)
                        /\ loc' = [loc EXCEPT ![p].ops = Log(p, "posts.find_one")]
           ELSE IF o \in DOMAIN posts
                THEN /\ posts' = [posts EXCEPT ![o] = Set(posts[o], update_dict)]
                     /\ ToFull(p, posts'[o], "posts.find_one_and_update")
                ELSE /\ posts' = posts
                     /\ Raise(p, PostNotFound)
                     /\ loc' = [loc EXCEPT ![p].ops = Log(p, "posts.find_one_and_update")]
        /\ UNCHANGED <<users, comments, nextOid, now, created, links, rendering, filtering>>

\* DELETE /posts/{post_id}
delete_post(p) ==
    \E post_id \in IdStrings :
        LET o == ObjectId(post_id) IN
        /\ Start(p)
        /\ budget' = budget - 1 /\ conns' = conns
        /\ req' = [req EXCEPT ![p] = Request("delete_post", post_id, <<>>)]
        /\ IF ~ObjectId_is_valid(post_id)
           THEN Raise(p, PostNotFound) /\ loc' = loc /\ posts' = posts
           ELSE /\ loc' = [loc EXCEPT ![p].ops = Log(p, "posts.delete_one")]
                /\ IF o \in DOMAIN posts
                   THEN posts' = Remove(posts, o)
                        /\ Respond(p, DeleteResponse(post_id))
                   ELSE posts' = posts /\ Raise(p, PostNotFound)
        /\ UNCHANGED <<users, comments, nextOid, now, created, links, rendering, filtering>>

\* =========================================================== comments
Comment(d, owner) ==
    [proj |-> "Comment", id |-> str(d._id), owner |-> owner, post |-> d.post,
     publishDate |-> d.publishDate]

CommentCreateFields == {"owner", "post"}
CommentCreateBodies == [owner : IdStrings, post : IdStrings, publishDate : Option({0})]

\* raise ResourceNotFoundError(f"Comment with id {comment_id} not found")
CommentNotFound == ResourceNotFoundError(<<"Comment with id not found">>)

\* the two id checks of CommentService.get_comments: each returns [], 0
CommentService_filter_not_valid(query) ==
    \/ query.post # None /\ ~ObjectId_is_valid(query.post[1])
    \/ query.owner # None /\ ~ObjectId_is_valid(query.owner[1])

\* GET /comments?post=..&user=..: the filters, then CommentService.get_comments
\* up to its first await (the two id checks and the count).  page, limit and
\* the sort direction are drawn where the code first reads them.
get_comments(p) ==
    \E post \in Option(IdStrings), user \in Option(IdStrings) :
        LET query == [owner |-> user, post |-> post] IN
        /\ StartRead(p)
        /\ budget' = budget - 1 /\ conns' = conns
        /\ IF CommentService_filter_not_valid(query)
           THEN \E page \in ListPages, limit \in ListLimits :
                   /\ req' = [req EXCEPT ![p] = ListRequest("get_comments", NoReq.id,
                                                  page, limit, "", "", query)]
                   /\ Respond(p, ListResponse(<<>>, 0, page, limit))
                   /\ loc' = loc
           ELSE /\ req' = [req EXCEPT ![p] =
                            ListRequest("get_comments", NoReq.id, 0, 0, "", "", query)]
                /\ loc' = [loc EXCEPT ![p].total = count_documents(comments, query),
                                      ![p].ops = Log(p, "comments.count_documents")]
                /\ pc' = [pc EXCEPT ![p] = "get_comments_find"]
                /\ resp' = resp
        /\ UNCHANGED <<users, posts, comments, nextOid, now, created, links, rendering, filtering>>

\* the cursor delivers the page
get_comments_find(p) ==
    /\ At(p, "get_comments_find")
    /\ \E page \in ListPages, limit \in ListLimits, sort_order \in SortOrderValues :
       \E cursor \in find(comments, req[p].query, "publishDate",
                         sort_direction(sort_order), (page - 1) * limit, limit) :
          /\ req' = [req EXCEPT ![p].page = page, ![p].limit = limit,
                                ![p].sort_by = "publishDate",
                                ![p].sort_order = sort_order]
          /\ loc' = [loc EXCEPT ![p].cursor = cursor, ![p].fetched = cursor,
                                ![p].ops = Log(p, "comments.find")]
          /\ IF cursor = <<>>
             THEN Respond(p, ListResponse(<<>>, loc[p].total, page, limit))
             ELSE pc' = [pc EXCEPT ![p] = "get_comments_resolve"] /\ resp' = resp
    /\ UNCHANGED <<users, posts, comments, nextOid, now, conns, budget, created, links, rendering, filtering>>

\* one turn of the loop: _comment_dict_to_model inside try/except
get_comments_resolve(p) ==
    /\ At(p, "get_comments_resolve")
    /\ LET comment_dict == Head(loc[p].cursor)
           rest == Tail(loc[p].cursor)
           owner == UserService_get_user_preview_by_id(comment_dict.owner)
           ops == loc[p].ops \o PreviewOps(comment_dict.owner)
           \* except ResourceNotFoundError: continue
           caught == OwnerNotFound.cls = "ResourceNotFoundError"
           out == IF owner = None THEN loc[p].out
                  ELSE Append(loc[p].out, Comment(comment_dict, owner[1]))
           missing == IF owner = None THEN loc[p].missing \cup {comment_dict._id}
                      ELSE loc[p].missing
       IN
       IF owner = None /\ ~caught
       THEN /\ Raise(p, OwnerNotFound)
            /\ loc' = [loc EXCEPT ![p].ops = ops, ![p].missing = missing]
       ELSE /\ loc' = [loc EXCEPT ![p].ops = ops, ![p].missing = missing,
                                  ![p].cursor = rest, ![p].out = out]
            /\ IF rest = <<>>
               THEN Respond(p, ListResponse(out, loc[p].total, req[p].page, req[p].limit))
               ELSE pc' = pc /\ resp' = resp
    /\ UNCHANGED <<users, posts, comments, nextOid, now, conns, budget, req, created, links, rendering, filtering>>

\* POST /comments: the owner check and the format check of the post id
create_comment(p) ==
    \E body \in CommentCreateBodies :
        LET comment_data == model_dump(CommentCreateFields, body) IN
        /\ Start(p) /\ OidLeft
        /\ budget' = budget - 1 /\ conns' = conns
        /\ req' = [req EXCEPT ![p] = Request("create_comment", NoReq.id, comment_data)]
        /\ loc' = [loc EXCEPT ![p].ops = PreviewOps(comment_data.owner)]
        /\ IF UserService_get_user_preview_by_id(comment_data.owner) = None
           THEN Raise(p, BodyNotValidError(<<"User with id not found">>))
           ELSE IF ~ObjectId_is_valid(comment_data.post)
           THEN Raise(p, BodyNotValidError(<<"Invalid post id">>))
           ELSE pc' = [pc EXCEPT ![p] = "create_comment_post"] /\ resp' = resp
        /\ UNCHANGED <<users, posts, comments, nextOid, now, created, links, rendering, filtering>>

\* the post check, then the document is prepared
create_comment_post(p) ==
    /\ At(p, "create_comment_post")
    /\ IF find_one(posts, ObjectId(req[p].body.post)) = None
       THEN /\ Raise(p, BodyNotValidError(<<"Post with id not found">>))
            /\ loc' = [loc EXCEPT ![p].ops = Log(p, "posts.find_one")]
            /\ now' = now
       ELSE /\ pc' = [pc EXCEPT ![p] = "create_comment_insert"]
            /\ loc' = [loc EXCEPT ![p].ops = Log(p, "posts.find_one"), ![p].date = now]
            /\ now' = now + 1
            /\ resp' = resp
    /\ UNCHANGED <<users, posts, comments, nextOid, conns, budget, req, created, links, rendering, filtering>>

create_comment_insert(p) ==
    /\ At(p, "create_comment_insert")
    /\ LET comment_dict == [_id |-> nextOid, owner |-> req[p].body.owner,
                            post |-> req[p].body.post, publishDate |-> loc[p].date]
       IN /\ comments' = (nextOid :> comment_dict) @@ comments
          /\ created' = (nextOid :> comment_dict) @@ created
    /\ nextOid' = nextOid + 1
    /\ pc' = [pc EXCEPT ![p] = "create_comment_fetch"]
    /\ loc' = [loc EXCEPT ![p].ops = Log(p, "comments.insert_one"),
                          ![p].inserted = nextOid]
    /\ UNCHANGED <<users, posts, now, conns, budget, req, resp, links, rendering, filtering>>

create_comment_fetch(p) ==
    /\ At(p, "create_comment_fetch")
    /\ LET created_comment == find_one(comments, loc[p].inserted) IN
       IF created_comment = None
       THEN /\ Raise(p, TypeError)
            /\ loc' = [loc EXCEPT ![p].ops = Log(p, "comments.find_one")]
       ELSE /\ loc' = [loc EXCEPT ![p].cursor = <<created_comment[1]>>,
                                  ![p].ops = Log(p, "comments.find_one")]
            /\ pc' = [pc EXCEPT ![p] = "comment_dict_to_model"]
            /\ resp' = resp
    /\ UNCHANGED <<users, posts, comments, nextOid, now, conns, budget, req, created, links, rendering, filtering>>

\* _comment_dict_to_model: the owner lookup, then the response of the router
comment_dict_to_model(p) ==
    /\ At(p, "comment_dict_to_model")
    /\ LET comment_dict == Head(loc[p].cursor)
           owner == UserService_get_user_preview_by_id(comment_dict.owner)
       IN
       /\ loc' = [loc EXCEPT ![p].ops = loc[p].ops \o PreviewOps(comment_dict.owner),
                             ![p].missing = IF owner = None THEN {comment_dict._id} ELSE {}]
       /\ IF owner = None
          THEN Raise(p, OwnerNotFound)
          ELSE Respond(p, ItemResponse(201, Comment(comment_dict, owner[1])))
    /\ UNCHANGED <<users, posts, comments, nextOid, now, conns, budget, req, created, links, rendering, filtering>>

\* DELETE /comments/{comment_id}
delete_comment(p) ==
    \E comment_id \in IdStrings :
        LET o == ObjectId(comment_id) IN
        /\ Start(p)
        /\ budget' = budget - 1 /\ conns' = conns
        /\ req' = [req EXCEPT ![p] = Request("delete_comment", comment_id, <<>>)]
        /\ IF ~ObjectId_is_valid(comment_id)
           THEN Raise(p, CommentNotFound) /\ loc' = loc /\ comments' = comments
           ELSE /\ loc' = [loc EXCEPT ![p].ops = Log(p, "comments.delete_one")]
                /\ IF o \in DOMAIN comments
                   THEN comments' = Remove(comments, o)
                        /\ Respond(p, DeleteResponse(comment_id))
                   ELSE comments' = comments /\ Raise(p, CommentNotFound)
        /\ UNCHANGED <<users, posts, nextOid, now, created, links, rendering, filtering>>

\* ====================================================== store failures
\* get_database() when the client is not connected
RuntimeError == Exception("RuntimeError", "MongoDB client is not connected")
\* the driver when the server cannot be reached
PyMongoError == Exception("ServerSelectionTimeoutError", "connection refused")

\* where a listing stands before its find and before a lookup of an owner
ListingLabels ==
    {"get_posts_find", "get_posts_resolve", "get_comments_find", "get_comments_resolve"}

\* A store operation of a listing fails: get_database() or count_documents
\* at its start, the find or an owner lookup later.  Nothing in the services
\* or the routers catches the exception.
store_failure(p) ==
    \E exc \in {RuntimeError, PyMongoError} :
        /\ \/ /\ \E op \in {"get_posts", "get_comments"} :
                     req' = [req EXCEPT ![p] = ListRequest(op, NoReq.id, 0, 0, "", "",
                                                          NoQuery)]
              /\ StartRead(p)
              /\ budget' = budget - 1
           \/ /\ Running
              /\ pc[p] \in ListingLabels
              /\ exc = PyMongoError
              /\ UNCHANGED <<req, budget>>
        /\ conns' = conns
        /\ loc' = [loc EXCEPT ![p].exc = Some(exc)]
        /\ Raise(p, exc)
        /\ UNCHANGED <<users, posts, comments, nextOid, now, created, links, rendering, filtering>>

\* ================================================= routing, validation
\* limit: int = Query(20, ge=1, le=100)
LimitLe == 100

\* sort_by: Literal[...] of the listing endpoints
SortByAllowed(op) ==
    IF op = "get_comments" THEN {"publishDate"} ELSE {"publishDate", "likes"}

\* page: int = Query(1, ge=1); limit: int = Query(20, ge=1, le=100); sort_by
QueryValid(op, page, limit, sort_by) ==
    /\ page >= 1
    /\ limit >= 1 /\ limit <= LimitLe
    /\ sort_by \in SortByAllowed(op)

\* FastAPI validates the declared query parameters before it calls the
\* endpoint function: a listing request with a parameter out of its range
\* raises RequestValidationError and the function never runs
request_validation(p) ==
    \E op \in {"get_posts", "get_comments"}, page \in {0, 1}, limit \in {1, LimitLe + 1},
       sort_by \in {"publishDate", "text"} :
        /\ Start(p)
        /\ ~QueryValid(op, page, limit, sort_by)
        /\ budget' = budget - 1 /\ conns' = conns
        /\ req' = [req EXCEPT ![p] = ListRequest(op, NoReq.id, page, limit, sort_by, "",
                                                 NoQuery)]
        /\ Raise(p, RequestValidationError)
        /\ UNCHANGED <<users, posts, comments, nextOid, now, loc, created, links, rendering, filtering>>

\* a request for a path no route matches, or for a method the matching route
\* does not serve
unrouted_request(p) ==
    \E status_code \in {404, 405} :
        /\ Start(p)
        /\ budget' = budget - 1 /\ conns' = conns
        /\ req' = [req EXCEPT ![p] = Request("unrouted", NoReq.id, <<>>)]
        /\ Raise(p, HTTPException(status_code,
                                  IF status_code = 404 THEN "Not Found"
                                  ELSE "Method Not Allowed"))
        /\ UNCHANGED <<users, posts, comments, nextOid, now, loc, created, links, rendering, filtering>>

\* ==================================================== pagination links
\* Python values that reach the f-string of the query string
PyStr(v) == [type |-> "str", v |-> v]
PyNone == [type |-> "NoneType", v |-> ""]
PyOpt(o) == IF o = None THEN PyNone ELSE PyStr(o[1])
\* class SortOrder(str, Enum): ASC = "asc"; DESC = "desc"
SortOrder(v) == [type |-> "SortOrder", v |-> v]

\* How format() renders a member of an enum that mixes in str: its value up
\* to Python 3.10, ClassName.MEMBER from Python 3.11 on.  The interpreter
\* the application runs on decides.
EnumFormats == {"value", "member"}

format(val, fmt) ==
    IF val.type = "SortOrder" /\ fmt = "member"
    THEN (IF val.v = "asc" THEN "SortOrder.ASC" ELSE "SortOrder.DESC")
    ELSE val.v

\* the page count rounded down instead of up
total_pages_floor(total, limit) == total \div limit

total_pages(total, limit) == (total + limit - 1) \div limit

\* params: the keyword arguments of the call, in the order they are passed
add_pagination_links(endpoint, page, limit, total, params, fmt) ==
    LET given == SelectSeq(params, LAMBDA kv : kv[2].type # "NoneType")
        query_string == [i \in DOMAIN given |-> <<given[i][1], format(given[i][2], fmt)>>]
        last == total_pages(total, limit)
        rels == {"self", "first", "last"}
                  \cup (IF page > 1 THEN {"prev"} ELSE {})
                  \cup (IF page < last THEN {"next"} ELSE {})
        target(rel) == CASE rel = "self" -> page
                         [] rel = "first" -> 1
                         [] rel = "last" -> last
                         [] rel = "prev" -> page - 1
                         [] rel = "next" -> page + 1
    IN [rel \in rels |-> Href(endpoint, target(rel), limit, query_string)]

\* The query parameters a request applied, as the client sent them, in
\* declaration order; a parameter that is None was not applied.
Applied(params) ==
    LET given == SelectSeq(params, LAMBDA kv : kv[2] # None)
    IN [i \in DOMAIN given |-> <<given[i][1], given[i][2][1]>>]

Pages == 1..MaxPage
Limits == 1..MaxLimit
Totals == 0..MaxTotal

\* the return statement of a list endpoint
ReturnLinks(endpoint, page, limit, total, applied, params, fmt) ==
    /\ links = NoLinks
    /\ links' = [endpoint |-> endpoint, page |-> page, limit |-> limit, total |-> total,
                 applied |-> Applied(applied), fmt |-> fmt,
                 out |-> add_pagination_links(endpoint, page, limit, total, params, fmt)]
    /\ UNCHANGED <<users, posts, comments, nextOid, now, conns, budget, pc, req, loc,
                   resp, created, rendering, filtering>>

\* GET /users: the links are built without any of the parameters
links_get_users ==
    \E page \in Pages, limit \in Limits, total \in Totals, fmt \in EnumFormats,
       sort_by \in {"registerDate", "firstName", "lastName"},
       sort_order \in SortOrderValues, title \in Option({"mr"}), search \in Option({"jo"}) :
        ReturnLinks("/api/v1/users", page, limit, total,
                    <<<<"sort_by", Some(sort_by)>>, <<"sort_order", Some(sort_order)>>,
                      <<"title", title>>, <<"search", search>>>>,
                    <<>>, fmt)

\* GET /posts
links_get_posts ==
    \E page \in Pages, limit \in Limits, total \in Totals, fmt \in EnumFormats,
       sort_by \in {"publishDate", "likes"}, sort_order \in SortOrderValues,
       search \in Option({"cats"}) :
        ReturnLinks("/api/v1/posts", page, limit, total,
                    <<<<"sort_by", Some(sort_by)>>, <<"sort_order", Some(sort_order)>>,
                      <<"search", search>>>>,
                    <<<<"sort_by", PyStr(sort_by)>>, <<"sort_order", SortOrder(sort_order)>>,
                      <<"search", PyOpt(search)>>>>, fmt)

\* GET /posts/user/{user_id} and GET /posts/tag/{tag}: the filter is part of
\* the endpoint
links_get_posts_by ==
    \E endpoint \in {"/api/v1/posts/user/{user_id}", "/api/v1/posts/tag/{tag}"},
       page \in Pages, limit \in Limits, total \in Totals, fmt \in EnumFormats,
       sort_by \in {"publishDate", "likes"}, sort_order \in SortOrderValues :
        ReturnLinks(endpoint, page, limit, total,
                    <<<<"sort_by", Some(sort_by)>>, <<"sort_order", Some(sort_order)>>>>,
                    <<<<"sort_by", PyStr(sort_by)>>, <<"sort_order", SortOrder(sort_order)>>>>,
                    fmt)

\* GET /comments
links_get_comments ==
    \E page \in Pages, limit \in Limits, total \in Totals, fmt \in EnumFormats,
       sort_order \in SortOrderValues, post \in Option({"p1"}), user \in Option({"u1"}) :
        ReturnLinks("/api/v1/comments", page, limit, total,
                    <<<<"sort_by", Some("publishDate")>>, <<"sort_order", Some(sort_order)>>,
                      <<"post", post>>, <<"user", user>>>>,
                    <<<<"sort_by", PyStr("publishDate")>>,
                      <<"sort_order", SortOrder(sort_order)>>,
                      <<"post", PyOpt(post)>>, <<"user", PyOpt(user)>>>>, fmt)

\* GET /comments/post/{post_id} and GET /comments/user/{user_id}
links_get_comments_by ==
    \E endpoint \in {"/api/v1/comments/post/{post_id}", "/api/v1/comments/user/{user_id}"},
       page \in Pages, limit \in Limits, total \in Totals, fmt \in EnumFormats,
       sort_order \in SortOrderValues :
        ReturnLinks(endpoint, page, limit, total,
                    <<<<"sort_by", Some("publishDate")>>, <<"sort_order", Some(sort_order)>>>>,
                    <<<<"sort_by", PyStr("publishDate")>>,
                      <<"sort_order", SortOrder(sort_order)>>>>, fmt)

\* the response has been sent
links_sent ==
    /\ links # NoLinks
    /\ links' = NoLinks
    /\ UNCHANGED <<users, posts, comments, nextOid, now, conns, budget, pc, req, loc,
                   resp, created, rendering, filtering>>

NextLinks ==
    \/ links_sent
    \/ links_get_users
    \/ links_get_posts
    \/ links_get_posts_by
    \/ links_get_comments
    \/ links_get_comments_by

SpecLinks == Init /\ [][NextLinks]_vars

\* ==================================================== locale formatting
\* A text is a sequence of one-character strings, a timestamp a record of the
\* fields of datetime (the seconds are fixed at 0).
datetime(year, month, day, hour, minute) ==
    [year |-> year, month |-> month, day |-> day, hour |-> hour, minute |-> minute]

\* test_i18n.py: datetime(2025, 11, 23, 15, 30, 0)
test_date == datetime(2025, 11, 23, 15, 30)

Years == {2025}
Months == {1, 11}
Days == {5, 23}
Hours == {0, 3, 12, 15}
Minutes == {5, 30}
Timestamps ==
    {datetime(y, mo, d, h, mi) : y \in Years, mo \in Months, d \in Days, h \in Hours,
                                 mi \in Minutes}

\* language tags handed to format_date
Tags == {<<"e", "n">>, <<"f", "r">>, <<"x", "x">>, <<"F", "R">>, <<"E", "N">>, <<"d">>, <<>>,
         <<"e", "n", "-", "U", "S">>, <<"f", "r", "-", "F", "R">>, <<"d", "e", "-", "D", "E">>}

\* Accept-Language headers
Headers == {<<"e", "n">>, <<"f", "r">>, <<"F", "R">>, <<"x", "x">>,
            <<"f", "r", "-", "F", "R", ",", "e", "n">>,
            <<" ", "f", "r", ",", "e", "n">>,
            <<"e", "n", "-", "U", "S", ",", "f", "r">>}

Digit(d) == <<"0", "1", "2", "3", "4", "5", "6", "7", "8", "9">>[d + 1]

\* str.lower()
lower_char(c) ==
    CASE c = "D" -> "d" [] c = "E" -> "e" [] c = "F" -> "f" [] c = "N" -> "n"
      [] c = "R" -> "r" [] c = "S" -> "s" [] c = "U" -> "u" [] c = "X" -> "x"
      [] OTHER -> c

lower(s) == [i \in 1 .. Len(s) |-> lower_char(s[i])]

\* s[:n]
Prefix(s, n) == SubSeq(s, 1, IF Len(s) < n THEN Len(s) ELSE n)

\* s.split(sep)[0]
split_first(s, sep) ==
    IF \E i \in 1 .. Len(s) : s[i] = sep
        THEN SubSeq(s, 1, (CHOOSE i \in 1 .. Len(s) :
                              /\ s[i] = sep
                              /\ \A j \in 1 .. i - 1 : s[j] # sep) - 1)
        ELSE s

\* s.strip()
strip(s) ==
    IF \A i \in 1 .. Len(s) : s[i] = " "
        THEN <<>>
        ELSE LET first == CHOOSE i \in 1 .. Len(s) :
                              s[i] # " " /\ \A j \in 1 .. i - 1 : s[j] = " "
                 last == CHOOSE i \in 1 .. Len(s) :
                              s[i] # " " /\ \A j \in i + 1 .. Len(s) : s[j] = " "
             IN  SubSeq(s, first, last)

\* the 24-hour clock where the pattern asks for the 12-hour one
hour12_24(hour) == hour

\* pattern field h: 1 .. 12
hour12(hour) == IF hour % 12 = 0 THEN 12 ELSE hour % 12

\* pattern field a
day_period(hour) == IF hour < 12 THEN <<"A", "M">> ELSE <<"P", "M">>

\* one field or literal of a babel pattern
format_field(date, field) ==
    CASE field = "dd" -> <<Digit(date.day \div 10), Digit(date.day % 10)>>
      [] field = "MM" -> <<Digit(date.month \div 10), Digit(date.month % 10)>>
      [] field = "yyyy" -> <<Digit((date.year \div 1000) % 10), Digit((date.year \div 100) % 10),
                             Digit((date.year \div 10) % 10), Digit(date.year % 10)>>
      [] field = "HH" -> <<Digit(date.hour \div 10), Digit(date.hour % 10)>>
      [] field = "h" -> IF hour12(date.hour) < 10
                            THEN <<Digit(hour12(date.hour))>>
                            ELSE <<Digit(hour12(date.hour) \div 10),
                                   Digit(hour12(date.hour) % 10)>>
      [] field = "mm" -> <<Digit(date.minute \div 10), Digit(date.minute % 10)>>
      [] field = "a" -> day_period(date.hour)
      [] field = "'at'" -> <<"a", "t">>
      [] field = "'à'" -> <<"à">>
      [] OTHER -> <<field>>

RECURSIVE format_datetime(_, _)
format_datetime(date, pattern) ==
    IF pattern = <<>>
        THEN <<>>
        ELSE format_field(date, Head(pattern)) \o format_datetime(date, Tail(pattern))

\* "dd/MM/yyyy 'à' HH:mm"
FrPattern == <<"dd", "/", "MM", "/", "yyyy", " ", "'à'", " ", "HH", ":", "mm">>

\* "MM/dd/yyyy 'at' h:mm a"
EnPattern == <<"MM", "/", "dd", "/", "yyyy", " ", "'at'", " ", "h", ":", "mm", " ", "a">>

locales == {<<"e", "n">>, <<"f", "r">>}

\* I18n.format_date; date is None or Some(timestamp)
I18n_format_date(date, language) ==
    IF date = None
        THEN <<>>
        ELSE LET lang0 == Prefix(lower(language), 2)
                 lang == IF lang0 \notin locales THEN <<"e", "n">> ELSE lang0
             IN  IF lang = <<"f", "r">>
                     THEN format_datetime(date[1], FrPattern)
                     ELSE format_datetime(date[1], EnPattern)

\* the module-level format_date
format_date(date, language) ==
    IF date = None THEN <<>> ELSE I18n_format_date(date, language)

\* datetime in a response model: pydantic writes it in ISO 8601
isoformat(date) ==
    format_datetime(date[1], <<"yyyy", "-", "MM", "-", "dd", "T", "HH", ":", "mm", ":", "0", "0">>)

\* lang = accept_language.split(",")[0].strip()[:2]
accept_language_lang(accept_language) == Prefix(strip(split_first(accept_language, ",")), 2)

\* routers/users.py: get_user, create_user, update_user
users_format(date, accept_language) == format_date(date, accept_language_lang(accept_language))

\* routers/posts.py: every endpoint that returns posts
posts_format(date, accept_language) == format_date(date, accept_language_lang(accept_language))

\* routers/comments.py: the Comment models go out as the service built them
comments_format(date, accept_language) == isoformat(date)

UserDateEndpoints == {"get_user", "create_user", "update_user"} \X {"registerDate", "dateOfBirth"}
PostDateEndpoints ==
    {"get_posts", "get_posts_by_user", "get_posts_by_tag", "get_post", "create_post",
     "update_post"} \X {"publishDate"}
CommentDateEndpoints ==
    {"get_comments", "get_comments_by_post", "get_comments_by_user", "create_comment"}
        \X {"publishDate"}
DateEndpoints == UserDateEndpoints \cup PostDateEndpoints \cup CommentDateEndpoints

\* a call of format_date, as test_i18n.py makes them
format_date_call ==
    \E date \in Option(Timestamps), language \in Tags :
        /\ rendering = NoRendering
        /\ rendering' = [call |-> <<"format_date", "">>, date |-> date, language |-> language,
                         out |-> format_date(date, language)]
        /\ UNCHANGED <<users, posts, comments, nextOid, now, conns, budget, pc, req, loc,
                       resp, created, links, filtering>>

\* a router shapes one date field of a response
shape_response ==
    \E call \in DateEndpoints, date \in Timestamps, accept_language \in Headers :
        /\ rendering = NoRendering
        /\ rendering' = [call |-> call, date |-> Some(date), language |-> accept_language,
                         out |-> IF call \in UserDateEndpoints
                                     THEN users_format(Some(date), accept_language)
                                 ELSE IF call \in PostDateEndpoints
                                     THEN posts_format(Some(date), accept_language)
                                     ELSE comments_format(Some(date), accept_language)]
        /\ UNCHANGED <<users, posts, comments, nextOid, now, conns, budget, pc, req, loc,
                       resp, created, links, filtering>>

\* the rendered text has been used
rendering_sent ==
    /\ rendering # NoRendering
    /\ rendering' = NoRendering
    /\ UNCHANGED <<users, posts, comments, nextOid, now, conns, budget, pc, req, loc,
                   resp, created, links, filtering>>

NextFormat ==
    \/ format_date_call
    \/ shape_response
    \/ rendering_sent

SpecFormat == Init /\ [][NextFormat]_vars

\* ======================================================= search filters
\* The search parameter of GET /users and GET /posts.  The routers hand the
\* string to the store as the pattern of a $regex with option "i"; a pattern
\* is read here over the characters below: a letter stands for itself in
\* either case, "." stands for any one character, and "(" opens a group that
\* no character here closes, so that a pattern holding it is not a regular
\* expression.  The title parameter of GET /users is absent.
SearchChars == {"d", "D", "e", ".", "("}
MaxSearch == 2
Searches == UNION {[1 .. n -> SearchChars] : n \in 0 .. MaxSearch}

FieldTexts == {<<"d", "e">>, <<"E">>, <<".">>}
UserTexts == [firstName : FieldTexts, lastName : FieldTexts, email : FieldTexts]
PostTexts == [text : FieldTexts]

\* `if search:`: absent and empty strings add nothing to the filter
truthy(search) == search # None /\ search[1] # <<>>

\* filters["$or"] = [{"firstName": {"$regex": search, "$options": "i"}}, ...]
users_filters(search) ==
    IF truthy(search)
        THEN [f \in {"firstName", "lastName", "email"} |->
                 [regex |-> search[1], options |-> "i"]]
        ELSE <<>>

\* filters["text"] = {"$regex": search, "$options": "i"}
posts_filters(search) ==
    IF truthy(search) THEN [f \in {"text"} |-> [regex |-> search[1], options |-> "i"]]
                      ELSE <<>>

\* the pattern compiles
regex_valid(regex) == \A j \in 1 .. Len(regex) : regex[j] # "("

\* the pattern matches the text from position i on, case ignored
regex_at(regex, text, i) ==
    \A j \in 1 .. Len(regex) :
        /\ i + j - 1 <= Len(text)
        /\ \/ regex[j] = "."
           \/ lower_char(regex[j]) = lower_char(text[i + j - 1])

\* an unanchored $regex with $options "i"
regex_search(regex, text) == \E i \in 1 .. Len(text) + 1 : regex_at(regex, text, i)

\* what the store makes of the filter for one document: the clauses of the
\* filter are alternatives, and the empty filter matches every document
find_filter(doc, filters) ==
    IF \E f \in DOMAIN filters : ~regex_valid(filters[f].regex) THEN "error"
    ELSE IF DOMAIN filters = {} \/ \E f \in DOMAIN filters :
                                       regex_search(filters[f].regex, doc[f])
        THEN "match"
        ELSE "no match"

\* GET /users?search=...
users_search ==
    \E search \in Option(Searches), doc \in UserTexts :
        /\ filtering = NoFiltering
        /\ filtering' = [call |-> "get_users", search |-> search, doc |-> doc,
                         out |-> find_filter(doc, users_filters(search))]
        /\ UNCHANGED <<users, posts, comments, nextOid, now, conns, budget, pc, req, loc,
                       resp, created, links, rendering>>

\* GET /posts?search=...
posts_search ==
    \E search \in Option(Searches), doc \in PostTexts :
        /\ filtering = NoFiltering
        /\ filtering' = [call |-> "get_posts", search |-> search, doc |-> doc,
                         out |-> find_filter(doc, posts_filters(search))]
        /\ UNCHANGED <<users, posts, comments, nextOid, now, conns, budget, pc, req, loc,
                       resp, created, links, rendering>>

\* the listing has been answered
search_answered ==
    /\ filtering # NoFiltering
    /\ filtering' = NoFiltering
    /\ UNCHANGED <<users, posts, comments, nextOid, now, conns, budget, pc, req, loc,
                   resp, created, links, rendering>>

NextSearch ==
    \/ users_search
    \/ posts_search
    \/ search_answered

SpecSearch == Init /\ [][NextSearch]_vars

\* ========================================================= user listing
\* GET /users: UserService.get_users up to its first await, the count.  The
\* title and search filters are left out here: with them absent the filter
\* is empty.
get_users(p) ==
    /\ StartRead(p)
    /\ budget' = budget - 1 /\ conns' = conns
    /\ req' = [req EXCEPT ![p] = ListRequest("get_users", NoReq.id, 0, 0, "", "", NoQuery)]
    /\ loc' = [loc EXCEPT ![p].total = count_documents(users, NoQuery),
                          ![p].ops = Log(p, "users.count_documents")]
    /\ pc' = [pc EXCEPT ![p] = "get_users_find"]
    /\ resp' = resp
    /\ UNCHANGED <<users, posts, comments, nextOid, now, created, links, rendering, filtering>>

\* the cursor delivers the page, every document becomes a UserPreview and the
\* router returns the page with its links; add_pagination_links gets none of
\* the query parameters, so the formatting of the enum plays no part
get_users_find(p) ==
    /\ At(p, "get_users_find")
    /\ \E page \in ListPages, limit \in ListLimits, sort_by \in {"registerDate", "firstName"},
          sort_order \in SortOrderValues :
       \E cursor \in find(users, req[p].query, sort_by, sort_direction(sort_order),
                         (page - 1) * limit, limit) :
          LET out == [i \in DOMAIN cursor |-> UserPreview(cursor[i])] IN
          /\ req' = [req EXCEPT ![p].page = page, ![p].limit = limit,
                                ![p].sort_by = sort_by, ![p].sort_order = sort_order]
          /\ loc' = [loc EXCEPT ![p].cursor = <<>>, ![p].fetched = cursor, ![p].out = out,
                                ![p].ops = Log(p, "users.find")]
          /\ Respond(p, ListResponse(out, loc[p].total, page, limit))
          /\ links' = [NoLinks EXCEPT
                          !.endpoint = "/api/v1/users", !.page = page, !.limit = limit,
                          !.total = loc[p].total,
                          !.out = add_pagination_links("/api/v1/users", page, limit,
                                                       loc[p].total, <<>>, "value")]
    /\ UNCHANGED <<users, posts, comments, nextOid, now, conns, budget, created, rendering, filtering>>

\* ================================================================= tags
\* the tag strings are ordered as strings are
TagNames == {"cat", "dog"}
TagRank(tag) == IF tag = "cat" THEN 1 ELSE 2

\* {"$unwind": "$tags"}: one document for every element of every tags array;
\* a post without the field or with an empty array yields none
unwind(coll) ==
    UNION {{<<o, i>> : i \in (IF "tags" \in DOMAIN coll[o] THEN DOMAIN coll[o].tags ELSE {})} :
              o \in DOMAIN coll}

\* {"$group": {"_id": "$tags"}}: one document for every distinct value
group(coll, unwound) == {coll[oi[1]].tags[oi[2]] : oi \in unwound}

\* the sort of the pipeline in descending order
sort_descending(S) ==
    CHOOSE s \in [1..Cardinality(S) -> S] :
        \A i, j \in DOMAIN s : i < j => TagRank(s[i]) > TagRank(s[j])

\* {"$sort": {"_id": 1}}
sort_ascending(S) ==
    CHOOSE s \in [1..Cardinality(S) -> S] :
        \A i, j \in DOMAIN s : i < j => TagRank(s[i]) < TagRank(s[j])

\* TagService.get_all_tags
get_all_tags == sort_ascending(group(posts, unwind(posts)))

TagsResponse(tags) ==
    [NoResp EXCEPT !.kind = "tags", !.status = 200, !.data = tags, !.total = Len(tags)]

\* GET /tags
get_tags(p) ==
    /\ StartRead(p)
    /\ budget' = budget - 1 /\ conns' = conns
    /\ req' = [req EXCEPT ![p] = Request("get_tags", NoReq.id, <<>>)]
    /\ loc' = [loc EXCEPT ![p].ops = Log(p, "posts.aggregate")]
    /\ Respond(p, TagsResponse(get_all_tags))
    /\ UNCHANGED <<users, posts, comments, nextOid, now, created, links, rendering, filtering>>

\* The writes of the post operations as far as they touch the field tags:
\* PostCreate.tags is a list of strings (empty when the payload has none),
\* PostUpdate.tags a list or null.
TagLists == {<<>>, <<"cat">>, <<"dog">>, <<"dog", "cat">>, <<"cat", "cat">>}

\* create_post: insert_one(post_data.model_dump())
create_post_tags ==
    \E tags \in TagLists :
        /\ Running
        /\ nextOid <= MaxOid
        /\ posts' = (nextOid :> [_id |-> nextOid, tags |-> tags]) @@ posts
        /\ nextOid' = nextOid + 1
        /\ UNCHANGED <<users, comments, now, conns, budget, pc, req, loc, resp, created,
                       links, rendering, filtering>>

\* update_post: find_one_and_update with the non-null fields of the payload
update_post_tags ==
    \E o \in DOMAIN posts, tags \in Option(TagLists) :
        LET update_dict == NonNone([tags |-> tags]) IN
        /\ Running
        /\ ~not_update_dict(update_dict)
        /\ posts' = [posts EXCEPT ![o] = Set(posts[o], update_dict)]
        /\ UNCHANGED <<users, comments, nextOid, now, conns, budget, pc, req, loc, resp,
                       created, links, rendering, filtering>>

\* delete_post: delete_one
delete_post_tags ==
    \E o \in DOMAIN posts :
        /\ Running
        /\ posts' = Remove(posts, o)
        /\ UNCHANGED <<users, comments, nextOid, now, conns, budget, pc, req, loc, resp,
                       created, links, rendering, filtering>>

NextTags ==
    \/ create_post_tags
    \/ update_post_tags
    \/ delete_post_tags
    \/ \E p \in Procs : get_tags(p)
    \/ \E p \in Procs : Finish(p)

SpecTags == Init /\ [][NextTags]_vars

Next ==
    \E p \in Procs :
        \/ create_user(p)
        \/ create_user_insert(p)
        \/ create_user_fetch(p)
        \/ get_user(p)
        \/ update_user(p)
        \/ delete_user(p)
        \/ get_users(p)
        \/ get_users_find(p)
        \/ get_tags(p)
        \/ get_posts(p)
        \/ get_posts_by_user(p)
        \/ get_posts_find(p)
        \/ get_posts_resolve(p)
        \/ get_post(p)
        \/ post_dict_to_full(p)
        \/ create_post(p)
        \/ create_post_insert(p)
        \/ create_post_fetch(p)
        \/ update_post(p)
        \/ delete_post(p)
        \/ get_comments(p)
        \/ get_comments_find(p)
        \/ get_comments_resolve(p)
        \/ create_comment(p)
        \/ create_comment_post(p)
        \/ create_comment_insert(p)
        \/ create_comment_fetch(p)
        \/ comment_dict_to_model(p)
        \/ delete_comment(p)
        \/ store_failure(p)
        \/ request_validation(p)
        \/ unrouted_request(p)
        \/ Finish(p)

Spec == Init /\ [][Next]_vars

\* The service some time after start-up: one user and one post of that user
\* are stored, and requests arrive on both connections.
StoredUsers == 1 :> [_id |-> 1, email |-> "e1", firstName |-> "n1", registerDate |-> 1]
StoredPosts == 2 :> [_id |-> 2, owner |-> str(1), likes |-> 0, publishDate |-> 2]

InitStored ==
    /\ links = NoLinks
    /\ rendering = NoRendering
    /\ filtering = NoFiltering
    /\ users = StoredUsers
    /\ posts = StoredPosts
    /\ comments = <<>>
    /\ nextOid = 3
    /\ now = 3
    /\ conns = Procs /\ budget = MaxOverlap
    /\ pc = [p \in Procs |-> "idle"]
    /\ req = [p \in Procs |-> NoReq]
    /\ loc = [p \in Procs |-> NoLoc]
    /\ resp = [p \in Procs |-> NoResp]
    /\ created = StoredUsers @@ StoredPosts

SpecStored == InitStored /\ [][Next]_vars

\* ============================================================ properties
\* the listings that resolve an owner for each document of the page
ListOps == {"get_posts", "get_posts_by_user", "get_comments"}

\* the documents of the fetched page whose owner lookup found a user
Resolved(p) == SelectSeq(loc[p].fetched, LAMBDA d : d._id \notin loc[p].missing)

\* C1: a listing whose page holds documents with a missing owner still ends
\* in a successful response, and its data are exactly the fetched documents
\* whose owner exists, in the order fetched.
C1_ListSkipsOrphans ==
    \A p \in Procs :
        pc[p] = "done" /\ req[p].op \in ListOps /\ loc[p].missing # {} =>
            /\ resp[p].kind = "list"
            /\ resp[p].status = 200
            /\ [i \in DOMAIN resp[p].data |-> resp[p].data[i].id]
                   = [i \in DOMAIN Resolved(p) |-> str(Resolved(p)[i]._id)]

\* C2: fetching a stored post by its id when its owner matches no stored user
\* ends in the error RESOURCE_NOT_FOUND with status 404.
C2_SingleItemStrict ==
    \A p \in Procs :
        pc[p] = "done" /\ req[p].op = "get_post" /\ loc[p].missing # {} =>
            /\ resp[p].kind = "error"
            /\ resp[p].code = "RESOURCE_NOT_FOUND"
            /\ resp[p].status = 404

\* C3: a successful list response reports as total the number of documents
\* counted, whatever the page and the limit; a listing that skipped items for
\* a missing owner is such a response: it returns the other items of the page
\* and the total still counts the skipped ones.
C3_TotalIsCount ==
    \A p \in Procs :
        pc[p] = "done" /\ req[p].op \in ListOps =>
            /\ resp[p].kind = "list" => resp[p].total = loc[p].total
            /\ loc[p].missing # {} =>
                  /\ resp[p].kind = "list"
                  /\ Len(resp[p].data) = Len(loc[p].fetched) - Cardinality(loc[p].missing)
                  /\ resp[p].total = loc[p].total

\* the ids a listing filters by
FilterIds(query) == {query[k][1] : k \in {f \in DOMAIN query : query[f] # None}}

\* the listing ended in an empty page with total 0 and never reached the store
ShortCircuited(p) ==
    /\ resp[p].kind = "list"
    /\ resp[p].status = 200
    /\ resp[p].data = <<>>
    /\ resp[p].total = 0
    /\ loc[p].ops = <<>>

\* C4 as stated: a listing filtered by an id that is not a well-formed entity
\* id (24 lowercase hexadecimal characters) returns data = [] and total = 0
\* without any count or find.
C4_ShortCircuitWellFormed ==
    \A p \in Procs :
        (/\ pc[p] = "done"
         /\ req[p].op \in ListOps
         /\ \E s \in FilterIds(req[p].query) : ~WellFormedId(s))
            => ShortCircuited(p)

\* C4 as amended: a listing filtered by an id that is not 24 hexadecimal
\* characters (of either case) returns data = [] and total = 0 as a
\* successful response, without any count or find.
C4_ShortCircuit ==
    \A p \in Procs :
        (/\ pc[p] = "done"
         /\ req[p].op \in ListOps
         /\ \E s \in FilterIds(req[p].query) : ~Hex24(s))
            => ShortCircuited(p)

\* a post listing by a user id that is not hexadecimal has been answered
C4_Witness ==
    \E p \in Procs :
        /\ pc[p] = "done"
        /\ req[p].op = "get_posts_by_user"
        /\ req[p].query.owner = Some(IdString("nonhex", 0))
        /\ resp[p].kind = "list"

\* ceil(total / limit), by its definition: the least n with n * limit >= total
CeilDiv(total, limit) == CHOOSE n \in 0..total : n * limit >= total /\ \A m \in 0..(n - 1) : m * limit < total

\* C5: add_pagination_links computes last_page = ceil(total/limit) (0 when
\* total = 0), always emits self, first (page 1) and last (page last_page),
\* emits prev (page-1) iff page > 1 and next (page+1) iff page < last_page.
C5_PaginationAlgebra ==
    links # NoLinks =>
        LET out == links.out
            last_page == CeilDiv(links.total, links.limit)
        IN /\ {"self", "first", "last"} \subseteq DOMAIN out
           /\ out["self"].page = links.page
           /\ out["first"].page = 1
           /\ out["last"].page = last_page
           /\ (links.total = 0 => out["last"].page = 0)
           /\ ("prev" \in DOMAIN out <=> links.page > 1)
           /\ ("prev" \in DOMAIN out => out["prev"].page = links.page - 1)
           /\ ("next" \in DOMAIN out <=> links.page < last_page)
           /\ ("next" \in DOMAIN out => out["next"].page = links.page + 1)
           /\ \A rel \in DOMAIN out : out[rel].limit = links.limit

\* a middle page, with both neighbours, of a total the limit does not divide
C5_Witness ==
    /\ links # NoLinks
    /\ {"prev", "next"} \subseteq DOMAIN links.out
    /\ links.total % links.limit # 0

\* C6: every pagination link of the post listing carries sort_by, sort_order
\* and search in declaration order, each with exactly the value the client
\* sent, null parameters omitted; on page 2 prev points to page 1.
C6_PostLinksKeepQuery ==
    links.endpoint = "/api/v1/posts" =>
        /\ \A rel \in DOMAIN links.out : links.out[rel].query_string = links.applied
        /\ (links.page = 2 => "prev" \in DOMAIN links.out /\ links.out["prev"].page = 1)

\* C7: on every list endpoint each pagination link echoes every non-null
\* filter and sort parameter that was applied to the query.
C7_LinksEchoApplied ==
    links # NoLinks =>
        \A rel \in DOMAIN links.out : \A i \in DOMAIN links.applied :
            \E j \in DOMAIN links.out[rel].query_string :
                links.out[rel].query_string[j] = links.applied[i]

UpdateOps == {"update_user", "update_post"}
WriteOps == {"users.find_one_and_update", "posts.find_one_and_update"}

\* this step starts an update of an existing entity whose payload leaves
\* every recognized mutable field null
NoOpUpdate(p) ==
    /\ pc[p] = "idle"
    /\ pc'[p] # "idle"
    /\ req'[p].op \in UpdateOps
    /\ Hex24(req'[p].id)
    /\ IF req'[p].op = "update_user"
       THEN req'[p].body.firstName = None /\ ObjectId(req'[p].id) \in DOMAIN users
       ELSE req'[p].body.likes = None /\ ObjectId(req'[p].id) \in DOMAIN posts

\* such a step writes nothing; update_user answers at once with the Full
\* projection of the stored user, update_post has read the stored post
NoOpUpdateReads(p) ==
    NoOpUpdate(p) =>
        /\ users' = users /\ posts' = posts /\ comments' = comments
        /\ \A i \in DOMAIN loc'[p].ops : loc'[p].ops[i] \notin WriteOps
        /\ IF req'[p].op = "update_user"
           THEN /\ pc'[p] = "done"
                /\ resp'[p] = ItemResponse(200, UserFull(users[ObjectId(req'[p].id)]))
           ELSE /\ pc'[p] = "post_dict_to_full"
                /\ loc'[p].cursor = <<posts[ObjectId(req'[p].id)]>>

\* this step answers an update_post whose payload left likes null
NoOpUpdatePostReturns(p) ==
    /\ pc[p] = "post_dict_to_full"
    /\ pc'[p] = "done"
    /\ req[p].op = "update_post"
    /\ req[p].body.likes = None

\* C8 as stated: an update whose payload leaves every recognized mutable field
\* null writes nothing, leaves the store unchanged and returns the Full
\* projection of the entity.
C8_UpdateNoOpAlwaysFull ==
    [][\A p \in Procs :
          /\ NoOpUpdateReads(p)
          /\ NoOpUpdatePostReturns(p) =>
                LET post_dict == Head(loc[p].cursor)
                    owner == UserService_get_user_preview_by_id(post_dict.owner)
                IN /\ users' = users /\ posts' = posts /\ comments' = comments
                   /\ owner # None
                   /\ resp'[p] = ItemResponse(200, PostFull(post_dict, owner[1]))]_vars

\* C8 as amended: such an update writes nothing and leaves the store
\* unchanged; update_user returns the Full projection of the user, update_post
\* returns the Full projection of the post when the post's owner is a stored
\* user and an error response when it is not.
C8_UpdateNoOp ==
    [][\A p \in Procs :
          /\ NoOpUpdateReads(p)
          /\ NoOpUpdatePostReturns(p) =>
                LET post_dict == Head(loc[p].cursor)
                    owner == UserService_get_user_preview_by_id(post_dict.owner)
                IN /\ users' = users /\ posts' = posts /\ comments' = comments
                   /\ IF owner # None
                      THEN resp'[p] = ItemResponse(200, PostFull(post_dict, owner[1]))
                      ELSE resp'[p].kind = "error"]_vars

\* an update_post whose payload carried only null and unrecognized fields
\* has returned the post
C8_Witness ==
    \E p \in Procs :
        /\ pc[p] = "done"
        /\ req[p].op = "update_post"
        /\ req[p].body.likes = None
        /\ req[p].body.owner # None
        /\ resp[p].kind = "item"
        /\ resp[p].data[1].proj = "PostFull"

\* C9: every stored user's email and registerDate and every stored post's
\* owner and publishDate equal what was written when the document was
\* created; the timestamps are readings of the server clock (1 .. now - 1),
\* never the timestamp of a payload (0).
C9_ImmutableFields ==
    /\ \A o \in DOMAIN users :
          /\ users[o].email = created[o].email
          /\ users[o].registerDate = created[o].registerDate
          /\ users[o].registerDate \in 1..(now - 1)
    /\ \A o \in DOMAIN posts :
          /\ posts[o].owner = created[o].owner
          /\ posts[o].publishDate = created[o].publishDate
          /\ posts[o].publishDate \in 1..(now - 1)

\* an update whose payload carried another email and a registerDate went
\* through on a stored user
C9_Witness ==
    \E p \in Procs :
        /\ pc[p] = "done"
        /\ req[p].op = "update_user"
        /\ req[p].body.firstName # None
        /\ req[p].body.email # None
        /\ req[p].body.registerDate # None
        /\ resp[p].kind = "item"
        /\ resp[p].data[1].email # req[p].body.email[1]

\* C10: no two stored users have the same email, whatever the interleaving of
\* the create_user requests.
C10_EmailUnique ==
    \A o1, o2 \in DOMAIN users : users[o1].email = users[o2].email => o1 = o2

\* two create_user requests for one email both passed the existence check;
\* the insert of the second was rejected
C10_Witness ==
    \E p, q \in Procs :
        /\ p # q
        /\ pc[p] = "done"
        /\ req[p].op = "create_user"
        /\ loc[p].ops = <<"users.find_one", "users.insert_one">>
        /\ resp[p].kind = "error"
        /\ req[q].op = "create_user"
        /\ req[q].body.email = req[p].body.email
        /\ pc[q] = "create_user_fetch"

\* C11: a create_user request that inserted no user because its email was
\* already held (at the existence check or at the insert) ends in
\* BODY_NOT_VALID with status 400, in every interleaving.
C11_DuplicateEmailIsBodyNotValid ==
    \A p \in Procs :
        pc[p] = "done" /\ req[p].op = "create_user" /\ loc[p].inserted = 0 =>
            /\ resp[p].kind = "error"
            /\ resp[p].code = "BODY_NOT_VALID"
            /\ resp[p].status = 400

\* this step starts a request of kind op on connection p
Starts(p, op) == pc[p] = "idle" /\ pc'[p] # "idle" /\ req'[p].op = op

\* this step ends the create request in BODY_NOT_VALID and inserts nothing
CreateRejected(p) ==
    /\ pc'[p] = "done"
    /\ resp'[p].kind = "error"
    /\ resp'[p].code = "BODY_NOT_VALID"
    /\ resp'[p].status = 400
    /\ users' = users /\ posts' = posts /\ comments' = comments
    /\ nextOid' = nextOid

\* no store operation op among those the request will have issued
NotIssued(p, op) == \A i \in DOMAIN loc'[p].ops : loc'[p].ops[i] # op

\* Referential validation of a create, for a given notion of a valid id:
\* an owner that is malformed or matches no user, and a post that is
\* malformed or matches no post, reject the create; a malformed id is never
\* looked up.
ReferencesValidated(p, valid(_)) ==
    /\ (Starts(p, "create_post") \/ Starts(p, "create_comment"))
       /\ (~valid(req'[p].body.owner) \/ ObjectId(req'[p].body.owner) \notin DOMAIN users)
          => /\ CreateRejected(p)
             /\ ~valid(req'[p].body.owner) => loc'[p].ops = <<>>
    /\ Starts(p, "create_comment")
       /\ valid(req'[p].body.owner) /\ ObjectId(req'[p].body.owner) \in DOMAIN users
       /\ ~valid(req'[p].body.post)
          => CreateRejected(p) /\ NotIssued(p, "posts.find_one")
    /\ pc[p] = "create_comment_post" /\ pc'[p] # "create_comment_post"
       /\ ObjectId(req[p].body.post) \notin DOMAIN posts
          => CreateRejected(p)

\* C12 as stated: create_post and create_comment with a reference that is
\* not a well-formed entity id (24 lowercase hexadecimal characters) or
\* matches no stored document end in BODY_NOT_VALID (400) and insert
\* nothing; the ids are format-checked before any lookup.
C12_ReferencesWellFormed ==
    [][\A p \in Procs : ReferencesValidated(p, WellFormedId)]_vars

\* C12 as amended: the same with a malformed id being one that is not 24
\* hexadecimal characters of either case.
C12_ReferencesValidated ==
    [][\A p \in Procs : ReferencesValidated(p, Hex24)]_vars

\* a create_comment of a stored user was rejected for its malformed post id
\* before any lookup of the post
C12_Witness ==
    \E p \in Procs :
        /\ pc[p] = "done"
        /\ req[p].op = "create_comment"
        /\ ~Hex24(req[p].body.post)
        /\ loc[p].ops = <<"users.find_one">>
        /\ resp[p].code = "BODY_NOT_VALID"

\* the collection a single-item operation addresses
Target(op) ==
    CASE op \in {"get_user", "update_user", "delete_user"} -> users
      [] op \in {"get_post", "update_post", "delete_post"} -> posts
      [] op = "delete_comment" -> comments

SingleItemOps ==
    {"get_user", "update_user", "delete_user", "get_post", "update_post", "delete_post",
     "delete_comment"}

\* C13: a single-item read, update or delete whose well-formed id matches no
\* stored document ends in RESOURCE_NOT_FOUND with status 404 and leaves the
\* store unchanged.
C13_MissingTargetIsNotFound ==
    [][\A p \in Procs : \A op \in SingleItemOps :
          (/\ Starts(p, op)
           /\ WellFormedId(req'[p].id)
           /\ ObjectId(req'[p].id) \notin DOMAIN Target(op))
             => /\ pc'[p] = "done"
                /\ resp'[p].kind = "error"
                /\ resp'[p].code = "RESOURCE_NOT_FOUND"
                /\ resp'[p].status = 404
                /\ users' = users /\ posts' = posts /\ comments' = comments]_vars

\* a request whose path or query parameter fails format or range validation
\* (a path id that is not even 24 hexadecimal characters); a listing that did
\* not read sort_by ran with the default
ParamsFailValidation(r) ==
    \/ /\ r.op \in ListOps
       /\ ~QueryValid(r.op, r.page, r.limit,
                      IF r.sort_by = "" THEN "publishDate" ELSE r.sort_by)
    \/ /\ r.op \in SingleItemOps
       /\ ~Hex24(r.id)

\* C14: a request whose path or query parameter fails format or range
\* validation ends in PARAMS_NOT_VALID with status 400, before any store
\* operation.
C14_ParamsNotValid ==
    \A p \in Procs :
        pc[p] = "done" /\ ParamsFailValidation(req[p]) =>
            /\ resp[p].kind = "error"
            /\ resp[p].code = "PARAMS_NOT_VALID"
            /\ resp[p].status = 400
            /\ loc[p].ops = <<>>

\* the ids request p has handed to the store so far in a find_one, an update
\* or a delete: the path id of a single-item operation, the owner and post
\* references of a create
IdsAtStore(p) ==
    LET r == req[p]
        issued == {loc[p].ops[i] : i \in DOMAIN loc[p].ops}
    IN IF r.op \in SingleItemOps /\ issued # {} THEN {r.id}
       ELSE IF r.op = "create_post" /\ issued # {} THEN {r.body.owner}
       ELSE IF r.op = "create_comment"
       THEN (IF issued # {} THEN {r.body.owner} ELSE {})
                \cup (IF "posts.find_one" \in issued THEN {r.body.post} ELSE {})
       ELSE {}

\* C15 as stated: no store operation is ever issued with an id that is not
\* exactly 24 lowercase hexadecimal characters.
C15_OnlyLowercaseIdsAtStore ==
    \A p \in Procs : \A s \in IdsAtStore(p) : WellFormedId(s)

\* C15 as amended: no store operation is ever issued with an id that is not
\* 24 hexadecimal characters (lowercase or uppercase); ids of a wrong length
\* or with non-hex characters are rejected before the store is reached.
C15_OnlyHexIdsAtStore ==
    \A p \in Procs : \A s \in IdsAtStore(p) : Hex24(s)

\* a delete of a post by an id that is not hexadecimal was answered without
\* reaching the store
C15_Witness ==
    \E p \in Procs :
        /\ pc[p] = "done"
        /\ req[p].op = "delete_post"
        /\ ~Hex24(req[p].id)
        /\ loc[p].ops = <<>>
        /\ resp[p].kind = "error"

\* the error codes of the spec, each with its status
ErrorVocabulary ==
    {<<"PARAMS_NOT_VALID", 400>>, <<"BODY_NOT_VALID", 400>>, <<"RESOURCE_NOT_FOUND", 404>>,
     <<"PATH_NOT_FOUND", 404>>, <<"SERVER_ERROR", 500>>}

\* C16 as stated: the code of every error response is one of PARAMS_NOT_VALID,
\* BODY_NOT_VALID, RESOURCE_NOT_FOUND, PATH_NOT_FOUND, SERVER_ERROR, with
\* status 400, 400, 404, 404, 500; no other code is ever emitted.
C16_ClosedVocabulary ==
    \A p \in Procs :
        resp[p].kind = "error" => <<resp[p].code, resp[p].status>> \in ErrorVocabulary

\* C16 as amended: the code of every error response is one of those five with
\* its status, or HTTP_ERROR, which carries the status of an HTTP exception
\* other than 404 (405 for a method the route does not serve) and no details.
C16_VocabularyWithHttpError ==
    \A p \in Procs :
        resp[p].kind = "error" =>
            \/ <<resp[p].code, resp[p].status>> \in ErrorVocabulary
            \/ /\ resp[p].code = "HTTP_ERROR"
               /\ resp[p].status = 405
               /\ resp[p].details = <<>>

\* a request for a method its route does not serve has been answered
C16_Witness ==
    \E p \in Procs :
        /\ pc[p] = "done"
        /\ req[p].op = "unrouted"
        /\ resp[p].kind = "error"
        /\ resp[p].code = "HTTP_ERROR"

\* C17: a store failure during the count or the fetch of a listing ends the
\* request in SERVER_ERROR with status 500; the details carry a correlation
\* id, and neither the message nor the details contain the type or the text
\* of the exception.
C17_StoreFailureIsServerError ==
    \A p \in Procs :
        pc[p] = "done" /\ req[p].op \in ListOps /\ loc[p].exc # None =>
            LET exc == loc[p].exc[1]
                cause == {exc.cls, exc.message}
            IN /\ resp[p].kind = "error"
               /\ resp[p].code = "SERVER_ERROR"
               /\ resp[p].status = 500
               /\ "errorId" \in DOMAIN resp[p].details
               /\ resp[p].message \notin cause
               /\ \A k \in DOMAIN resp[p].details : resp[p].details[k] \notin cause

\* the find of a listing failed after its count had succeeded
C17_Witness ==
    \E p \in Procs :
        /\ pc[p] = "done"
        /\ req[p].op \in ListOps
        /\ loc[p].exc # None
        /\ loc[p].ops # <<>>
        /\ resp[p].code = "SERVER_ERROR"

\* C18: a successful delete_user removes exactly that user and leaves posts
\* and comments unchanged; a post or comment of the deleted user stays stored,
\* still counts in the total of a listing, and the listing that resolves it
\* filters it out of its page.
C18_DeleteDoesNotCascade ==
    [][\A p \in Procs :
          /\ Starts(p, "delete_user") /\ resp'[p].kind = "deleted"
                => /\ ObjectId(req'[p].id) \in DOMAIN users
                   /\ users' = Remove(users, ObjectId(req'[p].id))
                   /\ posts' = posts
                   /\ comments' = comments
          /\ pc[p] # "done" /\ pc'[p] = "done" /\ req'[p].op \in ListOps
             /\ loc'[p].missing # {}
                => /\ resp'[p].kind = "list"
                   /\ resp'[p].total = loc'[p].total
                   /\ resp'[p].total >= Cardinality(loc'[p].missing)
                   /\ \A i \in DOMAIN resp'[p].data :
                          ObjectId(resp'[p].data[i].id) \notin loc'[p].missing]_vars

\* ------------------------------------------------------------------ C19
\* C19: format_date renders 2025-11-23T15:30:00 as "11/23/2025 at 3:30 PM" for
\* the tag en and as "23/11/2025 à 15:30" for the tag fr; for every tag whose
\* lower-cased first two characters are neither en nor fr the output is the en
\* output; a null timestamp renders as the empty string.
Text_en == <<"1", "1", "/", "2", "3", "/", "2", "0", "2", "5", " ", "a", "t", " ",
             "3", ":", "3", "0", " ", "P", "M">>
Text_fr == <<"2", "3", "/", "1", "1", "/", "2", "0", "2", "5", " ", "à", " ",
             "1", "5", ":", "3", "0">>

C19_LocaleFormatting ==
    rendering.call = <<"format_date", "">> =>
        /\ (rendering.date = Some(test_date) /\ rendering.language = <<"e", "n">>)
               => rendering.out = Text_en
        /\ (rendering.date = Some(test_date) /\ rendering.language = <<"f", "r">>)
               => rendering.out = Text_fr
        /\ Prefix(lower(rendering.language), 2) \notin {<<"e", "n">>, <<"f", "r">>}
               => rendering.out = format_date(rendering.date, <<"e", "n">>)
        /\ rendering.date = None => rendering.out = <<>>

C19_Witness ==
    /\ rendering.call = <<"format_date", "">>
    /\ rendering.date = Some(test_date)
    /\ rendering.language = <<"x", "x">>
    /\ rendering.out = Text_en

\* ------------------------------------------------------------------ C20
\* C20: every timestamp field in a response of a list, detail or create
\* endpoint (user registerDate and dateOfBirth, post publishDate, comment
\* publishDate) is the formatter's rendering for the request's language tag:
\* the first comma-separated entry of the header, lower-cased and cut to two
\* characters.
RequestLanguage(accept_language) == Prefix(lower(split_first(accept_language, ",")), 2)

C20_DatesRenderedForRequestLanguage ==
    (rendering.call \in DateEndpoints /\ rendering.call[1] \notin UpdateOps) =>
        rendering.out = format_date(rendering.date, RequestLanguage(rendering.language))

\* ------------------------------------------------------------------ C21
\* the tag strings that occur in the tags of at least one stored post
StoredTags == {t \in TagNames : \E o \in DOMAIN posts : \E i \in DOMAIN posts[o].tags :
                                    posts[o].tags[i] = t}

\* C21: after any sequence of post creates, updates and deletes the tags read
\* returns exactly the tag strings that occur in the tags of at least one
\* stored post, each once, in ascending order, and its total is the number of
\* returned tags.
C21_TagProjection ==
    \A p \in Procs :
        pc[p] = "done" /\ req[p].op = "get_tags" =>
            LET data == resp[p].data IN
            /\ resp[p].kind = "tags"
            /\ {data[i] : i \in DOMAIN data} = StoredTags
            /\ \A i, j \in DOMAIN data : i < j => TagRank(data[i]) < TagRank(data[j])
            /\ resp[p].total = Len(data)

\* two tags were returned while one post holds them in the other order and
\* another post holds one of them twice
C21_Witness ==
    \E p \in Procs :
        /\ pc[p] = "done"
        /\ req[p].op = "get_tags"
        /\ resp[p].data = <<"cat", "dog">>
        /\ \E o1, o2 \in DOMAIN posts :
              posts[o1].tags = <<"dog", "cat">> /\ posts[o2].tags = <<"cat", "cat">>

\* ------------------------------------------------------------------ C22
AllListOps == {"get_users", "get_posts", "get_posts_by_user", "get_comments"}
CountOps == {"users.count_documents", "posts.count_documents", "comments.count_documents"}
FindOps == {"users.find", "posts.find", "comments.find"}

\* how often the operations of S occur in ops
Occurrences(ops, S) == Cardinality({i \in DOMAIN ops : ops[i] \in S})

\* the request was turned away by the validation of its query parameters
RejectedInValidation(p) ==
    pc[p] = "done" /\ resp[p] = validation_error_handler(RequestValidationError)

\* C22: the stages of a list request come in the order ValidateParams,
\* BuildFilter, Count, Fetch, ResolveEach, AttachLinks, Respond: the count is
\* issued before the fetch, each at most once, the owner lookups follow the
\* fetch and there is at most one for each fetched document, a page is only
\* returned (with its links) after the fetch unless the filter cut the request
\* short, and a request rejected in ValidateParams issues no store operation.
C22_ListingOrder ==
    /\ \A p \in Procs :
          req[p].op \in AllListOps =>
              LET ops == loc[p].ops IN
              /\ Occurrences(ops, CountOps) <= 1
              /\ Occurrences(ops, FindOps) <= 1
              /\ ops # <<>> => ops[1] \in CountOps
              /\ Len(ops) >= 2 => ops[2] \in FindOps
              /\ \A i \in DOMAIN ops : i >= 3 => ops[i] = "users.find_one"
              /\ Len(ops) <= 2 + Len(loc[p].fetched)
              /\ resp[p].kind = "list" => ops = <<>> \/ Occurrences(ops, FindOps) = 1
              /\ RejectedInValidation(p) => ops = <<>>
    /\ links # NoLinks => \E p \in Procs : pc[p] = "done" /\ resp[p].kind = "list"

\* a post listing went through every stage: count, fetch, one owner lookup,
\* response
C22_Witness ==
    \E p \in Procs :
        /\ pc[p] = "done"
        /\ req[p].op = "get_posts"
        /\ loc[p].ops = <<"posts.count_documents", "posts.find", "users.find_one">>
        /\ resp[p].kind = "list"
        /\ Len(resp[p].data) = 1

\* ------------------------------------------------------------------ C23
\* the collection a listing reads
Listed(op) ==
    CASE op = "get_users" -> users
      [] op \in {"get_posts", "get_posts_by_user"} -> posts
      [] op = "get_comments" -> comments

\* a list request, served with no other request in flight and turned away
\* neither by the validation nor by a store failure, asked for a page past the
\* last one
PastTheEnd(p) ==
    /\ pc[p] = "done"
    /\ conns = {"a"}
    /\ req[p].op \in AllListOps
    /\ ~RejectedInValidation(p)
    /\ loc[p].exc = None
    /\ req[p].page > CeilDiv(count_documents(Listed(req[p].op), req[p].query), req[p].limit)

\* it succeeds with no items, the true match count and the requested page
EmptyPage(p) ==
    /\ resp[p].kind = "list"
    /\ resp[p].status = 200
    /\ resp[p].data = <<>>
    /\ resp[p].total = count_documents(Listed(req[p].op), req[p].query)
    /\ resp[p].page = req[p].page

Mutable(op) == IF op = "update_user" THEN {"firstName"} ELSE {"likes"}

\* coll with the mutable fields of document o overwritten by the non-null
\* values of body, every other field and every other document as before
Overwritten(coll, o, body, mutable) ==
    [o2 \in DOMAIN coll |->
        IF o2 # o THEN coll[o2]
        ELSE [k \in DOMAIN coll[o] |->
                 IF k \in mutable /\ body[k] # None THEN body[k][1] ELSE coll[o][k]]]

\* this step starts an update of a stored user: the write, and the answer
UpdateUserStep(p) ==
    (/\ Starts(p, "update_user")
     /\ Hex24(req'[p].id)
     /\ ObjectId(req'[p].id) \in DOMAIN users)
        => /\ users' = Overwritten(users, ObjectId(req'[p].id), req'[p].body,
                                   Mutable("update_user"))
           /\ posts' = posts /\ comments' = comments
           /\ pc'[p] = "done"
           /\ resp'[p] = ItemResponse(200, UserFull(users'[ObjectId(req'[p].id)]))

\* this step starts an update of a stored post: the write; the document after
\* the write goes on to be projected
UpdatePostStep(p) ==
    (/\ Starts(p, "update_post")
     /\ Hex24(req'[p].id)
     /\ ObjectId(req'[p].id) \in DOMAIN posts)
        => /\ posts' = Overwritten(posts, ObjectId(req'[p].id), req'[p].body,
                                   Mutable("update_post"))
           /\ users' = users /\ comments' = comments
           /\ pc'[p] = "post_dict_to_full"
           /\ loc'[p].cursor = <<posts'[ObjectId(req'[p].id)]>>

\* this step answers an update_post
UpdatePostReturns(p) ==
    pc[p] = "post_dict_to_full" /\ pc'[p] = "done" /\ req[p].op = "update_post"

\* C24 as stated: an update of an existing user or post overwrites exactly
\* the fields supplied with a non-null value, leaves every other field and
\* every other document unchanged, and returns the Full projection of the
\* document after the write.
C24_PartialUpdateAlwaysFull ==
    [][\A p \in Procs :
          /\ UpdateUserStep(p)
          /\ UpdatePostStep(p)
          /\ UpdatePostReturns(p) =>
                LET post_dict == Head(loc[p].cursor)
                    owner == find_one(users, ObjectId(post_dict.owner))
                IN /\ users' = users /\ posts' = posts /\ comments' = comments
                   /\ owner # None
                   /\ resp'[p] = ItemResponse(200, PostFull(post_dict, UserPreview(owner[1])))
      ]_vars

\* C24 as amended: the same write and frame; update_user returns the Full
\* projection of the user after the write, update_post returns the Full
\* projection of the post after the write when the owner of the post is a
\* stored user at the time the projection is built, and otherwise ends in an
\* error response with the write applied.
C24_PartialUpdate ==
    [][\A p \in Procs :
          /\ UpdateUserStep(p)
          /\ UpdatePostStep(p)
          /\ UpdatePostReturns(p) =>
                LET post_dict == Head(loc[p].cursor)
                    owner == find_one(users, ObjectId(post_dict.owner))
                IN /\ users' = users /\ posts' = posts /\ comments' = comments
                   /\ IF owner # None
                      THEN resp'[p] = ItemResponse(200, PostFull(post_dict,
                                                                UserPreview(owner[1])))
                      ELSE resp'[p].kind = "error"
      ]_vars

\* an update_post that set likes has returned the post with the new value
C24_Witness ==
    \E p \in Procs :
        /\ pc[p] = "done"
        /\ req[p].op = "update_post"
        /\ req[p].body.likes # None
        /\ resp[p].kind = "item"
        /\ resp[p].data[1].likes = req[p].body.likes[1]
        /\ created[ObjectId(req[p].id)].likes # req[p].body.likes[1]

\* ------------------------------------------------------------------ C25
\* s occurs in t as a run of characters, case ignored
Contains(t, s) ==
    \E i \in 1 .. Len(t) + 1 :
        /\ i + Len(s) - 1 <= Len(t)
        /\ \A j \in 1 .. Len(s) : lower_char(s[j]) = lower_char(t[i + j - 1])

\* C25: for every search string a user matches the search filter of the user
\* listing iff the string is a case-insensitive literal substring of its
\* firstName, lastName or email, a post matches that of the post listing iff
\* it is one of its text, and with no search parameter every document matches.
C25_SearchLiteralSubstring ==
    filtering.call # "" =>
        filtering.out =
            IF \/ filtering.search = None
               \/ \E f \in DOMAIN filtering.doc :
                      Contains(filtering.doc[f], filtering.search[1])
                THEN "match"
                ELSE "no match"

\* ------------------------------------------------------------------ C26
\* the documents a listing request matches
Matched(p) == Matching(Listed(req[p].op), req[p].query)

\* o1 comes before o2 in the order the request asks for
Before(p, o1, o2) ==
    LET coll == Listed(req[p].op)
        k1 == SortKey(coll[o1], req[p].sort_by)
        k2 == SortKey(coll[o2], req[p].sort_by)
    IN IF req[p].sort_order = "desc" THEN k1 > k2 ELSE k1 < k2

\* the place of a matching document in that order
Position(p, o) == 1 + Cardinality({o2 \in Matched(p) : Before(p, o2, o)})

\* every matching post or comment has its owner among the stored users
OwnersResolvable(p) ==
    req[p].op = "get_users" \/
        \A o \in Matched(p) :
            /\ Hex24(Listed(req[p].op)[o].owner)
            /\ ObjectId(Listed(req[p].op)[o].owner) \in DOMAIN users

\* a page of a listing that was served with no other request in flight, over
\* documents with pairwise distinct sort keys and resolvable owners
PageOfPartition(p) ==
    /\ pc[p] = "done"
    /\ conns = {"a"}
    /\ req[p].op \in AllListOps
    /\ resp[p].kind = "list"
    /\ \A o1, o2 \in Matched(p) : o1 # o2 => (Before(p, o1, o2) \/ Before(p, o2, o1))
    /\ OwnersResolvable(p)
    /\ req[p].page <= CeilDiv(Cardinality(Matched(p)), req[p].limit)

\* C26: with no concurrent writes, pairwise distinct sort keys and every owner
\* resolvable, page number page of 1..ceil(total/limit) holds the documents at
\* the positions (page-1)*limit .. (page-1)*limit+limit-1 of the matching set
\* in the order of the sort field (descending for desc, ascending otherwise),
\* so that every matching document is on exactly one of the pages.
C26_PagePartition ==
    \A p \in Procs :
        PageOfPartition(p) =>
            LET skip == (req[p].page - 1) * req[p].limit
                data == resp[p].data
            IN /\ Len(data) = Cardinality({o \in Matched(p) :
                                  skip < Position(p, o) /\ Position(p, o) <= skip + req[p].limit})
               /\ \A i \in DOMAIN data :
                      \E o \in Matched(p) : data[i].id = str(o) /\ Position(p, o) = skip + i
               /\ \A o \in Matched(p) :
                      Cardinality({pg \in 1 .. CeilDiv(Cardinality(Matched(p)), req[p].limit) :
                                      /\ (pg - 1) * req[p].limit < Position(p, o)
                                      /\ Position(p, o) <= pg * req[p].limit}) = 1

\* the second page of one, of two posts listed in descending order, holds the
\* older post
C26_Witness ==
    \E p \in Procs :
        /\ PageOfPartition(p)
        /\ req[p].op = "get_posts"
        /\ req[p].sort_by = "publishDate" /\ req[p].sort_order = "desc"
        /\ req[p].page = 2 /\ req[p].limit = 1
        /\ Cardinality(Matched(p)) = 2
        /\ Len(resp[p].data) = 1
        /\ \A o \in Matched(p) : posts[o].publishDate >= resp[p].data[1].publishDate

\* ------------------------------------------------------------------ C27
\* C27: in every successful list response the number of items in data is at
\* most limit and at most total, however the count and the fetch of the
\* listing interleave with create and delete requests on the collection.
C27_PageWithinLimitAndTotal ==
    \A p \in Procs :
        (/\ pc[p] = "done"
         /\ req[p].op \in AllListOps
         /\ resp[p].kind = "list"
         /\ resp[p].status = 200)
            => /\ Len(resp[p].data) <= resp[p].limit
               /\ Len(resp[p].data) <= resp[p].total

\* ------------------------------------------------------------------ C28
\* at most one request besides that of p has started, and it was a
\* delete_user: it is still in flight, or it has removed the stored user
OnlyDeleteUserBeside(p) ==
    \/ budget = MaxOverlap - 1
    \/ /\ budget = MaxOverlap - 2
       /\ \/ \E q \in Procs \ {p} : req[q].op = "delete_user"
          \/ users = <<>>

\* request p is a create_post or create_comment that ended in an error
\* response
CreateFailed(p) ==
    /\ pc[p] = "done"
    /\ req[p].op \in {"create_post", "create_comment"}
    /\ resp[p].kind = "error"
    /\ OnlyDeleteUserBeside(p)

\* C28: a create_post or create_comment request that ends in an error response
\* leaves the posts and comments collections exactly as they were, whatever
\* the interleaving with a delete_user of the referenced owner.
C28_CreateAtomicity ==
    \A p \in Procs : CreateFailed(p) => posts = StoredPosts /\ comments = <<>>

\* ------------------------------------------------------------------ C29
\* this step is a delete of collection coll, which is coll2 after it: it
\* returns true exactly when a document with the id is stored, that document
\* is then gone and no other is touched, and otherwise nothing is
DeleteStep(p, op, coll, coll2) ==
    Starts(p, op) =>
        LET id == req'[p].id
            o == ObjectId(id)
            stored == Hex24(id) /\ o \in DOMAIN coll
            returned_true == resp'[p].kind = "deleted"
        IN /\ pc'[p] = "done"
           /\ returned_true <=> stored
           /\ ~returned_true => resp'[p].kind = "error"
           /\ coll2 = IF stored THEN [k \in DOMAIN coll \ {o} |-> coll[k]] ELSE coll

\* this step is a single-item read of an id that no stored document has
ReadFindsNothing(p, op, coll) ==
    (Starts(p, op) /\ ObjectId(req'[p].id) \notin DOMAIN coll)
        => pc'[p] = "done" /\ resp'[p].kind = "error"

\* C29: the delete of a user, post or comment returns true iff a document
\* with that id was stored and has been removed by this call; an id once
\* removed is never stored again, so that of several deletes of one id exactly
\* one returns true, and a read of the id after it finds nothing.
C29_DeleteOutcome ==
    [][/\ \A p \in Procs :
             /\ DeleteStep(p, "delete_user", users, users')
             /\ DeleteStep(p, "delete_post", posts, posts')
             /\ DeleteStep(p, "delete_comment", comments, comments')
             /\ ReadFindsNothing(p, "get_user", users)
             /\ ReadFindsNothing(p, "get_post", posts)
       /\ \A o \in DOMAIN created \ (DOMAIN users \cup DOMAIN posts \cup DOMAIN comments) :
             o \notin DOMAIN users' \cup DOMAIN posts' \cup DOMAIN comments'
      ]_vars

\* a second delete of a user has returned false after the first removed it
C29_Witness ==
    \E p \in Procs :
        /\ pc[p] = "done"
        /\ req[p].op = "delete_user"
        /\ resp[p].kind = "error"
        /\ Hex24(req[p].id)
        /\ ObjectId(req[p].id) \in DOMAIN created
        /\ ObjectId(req[p].id) \notin DOMAIN users
        /\ "email" \in DOMAIN created[ObjectId(req[p].id)]

\* ------------------------------------------------------------------ C30
\* the requests that read: listings, single-item reads and the tag read
ReadRequests == AllListOps \cup {"get_user", "get_post", "get_tags"}
CreateRequests == {"create_user", "create_post", "create_comment"}
UpdateRequests == {"update_user", "update_post"}
DeleteRequests == {"delete_user", "delete_post", "delete_comment"}

\* request p takes this step
Steps(p) == pc'[p] # pc[p] \/ loc'[p] # loc[p] \/ resp'[p] # resp[p]

\* the request of p, as it is after the step, may write: a create, a delete,
\* or an update whose payload has a non-null updatable field
MayWrite(p) ==
    \/ req'[p].op \in CreateRequests \cup DeleteRequests
    \/ /\ req'[p].op \in UpdateRequests
       /\ \E k \in Mutable(req'[p].op) : req'[p].body[k] # None

\* C30: every step of a list request, single-item read or tag read, on its
\* successful, failing, short-circuit and skipped-item paths alike, leaves the
\* three collections unchanged; a step that changes a collection is a step of
\* a create, of an update with at least one non-null field, or of a delete.
C30_ReadOnly ==
    [][/\ \A p \in Procs :
             (Steps(p) /\ req'[p].op \in ReadRequests) => store' = store
       /\ store' # store => \E p \in Procs : Steps(p) /\ MayWrite(p)
      ]_vars

\* a post listing has met a post whose owner is gone and has answered, with
\* the post still stored
C30_Witness ==
    \E p \in Procs :
        /\ pc[p] = "done"
        /\ req[p].op = "get_posts"
        /\ loc[p].missing # {}
        /\ loc[p].missing \subseteq DOMAIN posts
        /\ users = <<>>

====
